---- MODULE Spec2Model ----
(***************************************************************************)
(* fast-list: a doubly linked list whose nodes live in a generational      *)
(* slot arena (slotmap::SlotMap).  The list keeps head/tail keys and each   *)
(* node keeps next_index/prev_index keys.                                   *)
(***************************************************************************)
EXTENDS Integers, Sequences, FiniteSets, TLC

\* ------------------------------------------------------------------ bounds
\* number of keys one list may mint over a behaviour (inserting calls stop there)
MaxKeys == 4
\* longest input sequence handed to extend / extend_front
MaxExtend == 3
\* number of threads of the multi-threaded scenarios
NumThreads == 2
\* number of calls one thread makes into a LinkedListCell
MaxCalls == 1

\* payload values T
Values == {1, 2}
\* Option<T>::None for a payload
NoValue == -1

\* ------------------------------------------------------------------- keys
\* A LinkedListIndex is a slotmap key: <<slot index, version>>.
\* Option<LinkedListIndex>::None
None == <<0, 0>>

\* every key an arena can mint within the bound (occupied versions are odd)
Keys == {<<i, 2 * g - 1>> : i \in 1..MaxKeys, g \in 1..MaxKeys}

\* a key minted by some other list, which this list never mints
Foreign == <<MaxKeys + 1, 1>>

\* Option<LinkedListItem<T>>::None
NoItem == [index |-> None, value |-> NoValue, next_index |-> None, prev_index |-> None]

LinkedListItem(i, v, n, p) == [index |-> i, value |-> v, next_index |-> n, prev_index |-> p]

\* ------------------------------------------------------------ slot arena
\* SlotMap::with_key(): no slots beyond the sentinel, free list empty
SlotMapNew == [slots |-> <<>>, free_head |-> 1, num_elems |-> 0]

\* SlotMap::contains_key: the slot exists and carries the key's version
sm_contains_key(sm, k) ==
    /\ k[1] \in 1..Len(sm.slots)
    /\ sm.slots[k[1]].version = k[2]

\* SlotMap::get, as an Option (NoItem when the key does not resolve)
sm_get(sm, k) == IF sm_contains_key(sm, k) THEN sm.slots[k[1]].item ELSE NoItem

\* the key the next insert_with_key will mint: the head of the free list
\* with its version made odd, else a new slot with version 1
sm_next_key(sm) ==
    IF sm.free_head <= Len(sm.slots)
    THEN <<sm.free_head, sm.slots[sm.free_head].version + 1>>
    ELSE <<Len(sm.slots) + 1, 1>>

\* SlotMap::insert_with_key(|i| item): item already built with the key
sm_insert(sm, item) ==
    LET k == sm_next_key(sm) IN
    IF sm.free_head <= Len(sm.slots)
    THEN [slots |-> [sm.slots EXCEPT ![k[1]] =
                        [version |-> k[2], next_free |-> 0, item |-> item]],
          free_head |-> sm.slots[k[1]].next_free,
          num_elems |-> sm.num_elems + 1]
    ELSE [slots |-> Append(sm.slots, [version |-> 1, next_free |-> 0, item |-> item]),
          free_head |-> k[1] + 1,
          num_elems |-> sm.num_elems + 1]

\* SlotMap::remove: frees the slot, bumps its version, pushes it on the free list
sm_remove(sm, k) ==
    IF sm_contains_key(sm, k)
    THEN [slots |-> [sm.slots EXCEPT ![k[1]] =
                        [version |-> k[2] + 1, next_free |-> sm.free_head, item |-> NoItem]],
          free_head |-> k[1],
          num_elems |-> sm.num_elems - 1]
    ELSE sm

\* write through the reference SlotMap::get_mut returned
sm_set(sm, k, item) == [sm EXCEPT !.slots[k[1]].item = item]

\* keys that currently resolve
sm_keys(sm) == {k \in Keys : sm_contains_key(sm, k)}

\* ------------------------------------------------------------------ list
\* LinkedList::new
new == [head |-> None, tail |-> None, items |-> SlotMapNew]

\* LinkedList::len
len(l) == l.items.num_elems

\* LinkedList::contains_key
contains_key(l, index) == sm_contains_key(l.items, index)

\* LinkedList::get (Option<&LinkedListItem>)
get(l, index) == sm_get(l.items, index)

\* LinkedList::next_of
next_of(l, index) ==
    IF contains_key(l, index) /\ get(l, index).next_index # None
    THEN get(l, get(l, index).next_index)
    ELSE NoItem

\* LinkedList::prev_of
prev_of(l, index) ==
    IF contains_key(l, index) /\ get(l, index).prev_index # None
    THEN get(l, get(l, index).prev_index)
    ELSE NoItem

\* result of an operation: the list afterwards and what the call returned
Result(l) == [list |-> l, ret |-> None, item |-> NoItem, val |-> NoValue,
              rets |-> <<>>, out |-> new, panicked |-> FALSE]

\* `if let Some(x) = items.get_mut(k) { x.next_index = n }`
set_next(items, k, n) ==
    IF sm_contains_key(items, k)
    THEN sm_set(items, k, [sm_get(items, k) EXCEPT !.next_index = n])
    ELSE items

\* `if let Some(x) = items.get_mut(k) { x.prev_index = p }`
set_prev(items, k, p) ==
    IF sm_contains_key(items, k)
    THEN sm_set(items, k, [sm_get(items, k) EXCEPT !.prev_index = p])
    ELSE items

\* LinkedList::get_mut followed by an assignment to the value field
get_mut(l, index, v) ==
    IF contains_key(l, index)
    THEN [Result([l EXCEPT !.items = sm_set(l.items, index,
                      [get(l, index) EXCEPT !.value = v])])
              EXCEPT !.ret = index, !.item = [get(l, index) EXCEPT !.value = v]]
    ELSE Result(l)

\* push_back as it would be if it returned the tail read before the update
push_back_returns_old_tail(l, value) ==
    LET index == sm_next_key(l.items)
        items1 == sm_insert(l.items, LinkedListItem(index, value, None, l.tail))
        items2 == IF l.tail # None THEN set_next(items1, l.tail, index) ELSE items1
        old == IF l.tail # None THEN l.tail ELSE index
    IN [Result([head |-> IF l.tail # None THEN l.head ELSE index,
                tail |-> index,
                items |-> items2])
           EXCEPT !.ret = old, !.rets = <<old>>]

\* push_back as it would be without `tail.next_index = Some(index)`
push_back_tail_not_linked(l, value) ==
    LET index == sm_next_key(l.items)
        items1 == sm_insert(l.items, LinkedListItem(index, value, None, l.tail))
    IN [Result([head |-> IF l.tail # None THEN l.head ELSE index,
                tail |-> index,
                items |-> items1])
           EXCEPT !.ret = index, !.rets = <<index>>]

\* push_back as it would be if a node behind a tail stored the tail's key in
\* its index field
push_back_index_of_tail(l, value) ==
    LET index == sm_next_key(l.items)
        stored == IF l.tail # None THEN l.tail ELSE index
        items1 == sm_insert(l.items, LinkedListItem(stored, value, None, l.tail))
        items2 == IF l.tail # None THEN set_next(items1, l.tail, index) ELSE items1
    IN [Result([head |-> IF l.tail # None THEN l.head ELSE index,
                tail |-> index,
                items |-> items2])
           EXCEPT !.ret = index, !.rets = <<index>>]

\* LinkedList::push_back
push_back(l, value) ==
    LET index == sm_next_key(l.items)
        items1 == sm_insert(l.items, LinkedListItem(index, value, None, l.tail))
        items2 == IF l.tail # None THEN set_next(items1, l.tail, index) ELSE items1
    IN [Result([head |-> IF l.tail # None THEN l.head ELSE index,
                tail |-> index,
                items |-> items2])
           EXCEPT !.ret = index, !.rets = <<index>>]

\* push_front as it would be without `head.prev_index = Some(index)`
push_front_no_back_link(l, value) ==
    LET index == sm_next_key(l.items)
        items1 == sm_insert(l.items, LinkedListItem(index, value, l.head, None))
    IN [Result([head |-> index,
                tail |-> IF l.head # None THEN l.tail ELSE index,
                items |-> items1])
           EXCEPT !.ret = index, !.rets = <<index>>]

\* LinkedList::push_front
push_front(l, value) ==
    LET index == sm_next_key(l.items)
        items1 == sm_insert(l.items, LinkedListItem(index, value, l.head, None))
        items2 == IF l.head # None THEN set_prev(items1, l.head, index) ELSE items1
    IN [Result([head |-> index,
                tail |-> IF l.head # None THEN l.tail ELSE index,
                items |-> items2])
           EXCEPT !.ret = index, !.rets = <<index>>]

\* remove as it would be if it unlinked the node without items.remove(index)
remove_node_kept(l, index) ==
    IF ~contains_key(l, index) THEN Result(l)
    ELSE
    LET item == get(l, index)
        items1 == IF item.prev_index # None
                  THEN set_next(l.items, item.prev_index, item.next_index)
                  ELSE l.items
        head1 == IF item.prev_index # None THEN l.head ELSE item.next_index
        items2 == IF item.next_index # None
                  THEN set_prev(items1, item.next_index, item.prev_index)
                  ELSE items1
        tail1 == IF item.next_index # None THEN l.tail ELSE item.prev_index
    IN [Result([head |-> head1, tail |-> tail1, items |-> items2])
           EXCEPT !.ret = index, !.item = item, !.val = item.value]

\* remove as it would be without `prev_mut.next_index = item.next_index`
remove_prev_not_relinked(l, index) ==
    IF ~contains_key(l, index) THEN Result(l)
    ELSE
    LET item == get(l, index)
        items0 == sm_remove(l.items, index)
        head1 == IF item.prev_index # None THEN l.head ELSE item.next_index
        items2 == IF item.next_index # None
                  THEN set_prev(items0, item.next_index, item.prev_index)
                  ELSE items0
        tail1 == IF item.next_index # None THEN l.tail ELSE item.prev_index
    IN [Result([head |-> head1, tail |-> tail1, items |-> items2])
           EXCEPT !.ret = index, !.item = item, !.val = item.value]

\* remove as it would be if a key that does not resolve fell back to the tail
remove_stale_pops_tail(l, index) ==
    LET k == IF contains_key(l, index) THEN index ELSE l.tail IN
    IF ~contains_key(l, k) THEN Result(l)
    ELSE
    LET item == get(l, k)
        items0 == sm_remove(l.items, k)
        items1 == IF item.prev_index # None
                  THEN set_next(items0, item.prev_index, item.next_index)
                  ELSE items0
        head1 == IF item.prev_index # None THEN l.head ELSE item.next_index
        items2 == IF item.next_index # None
                  THEN set_prev(items1, item.next_index, item.prev_index)
                  ELSE items1
        tail1 == IF item.next_index # None THEN l.tail ELSE item.prev_index
    IN [Result([head |-> head1, tail |-> tail1, items |-> items2])
           EXCEPT !.ret = k, !.item = item, !.val = item.value]

\* remove as it would be without `self.tail = item.prev_index`
remove_tail_kept(l, index) ==
    IF ~contains_key(l, index) THEN Result(l)
    ELSE
    LET item == get(l, index)
        items0 == sm_remove(l.items, index)
        items1 == IF item.prev_index # None
                  THEN set_next(items0, item.prev_index, item.next_index)
                  ELSE items0
        head1 == IF item.prev_index # None THEN l.head ELSE item.next_index
        items2 == IF item.next_index # None
                  THEN set_prev(items1, item.next_index, item.prev_index)
                  ELSE items1
    IN [Result([head |-> head1, tail |-> l.tail, items |-> items2])
           EXCEPT !.ret = index, !.item = item, !.val = item.value]

\* LinkedList::remove, first statement: `self.items.remove(index)`
remove_take(l, index) == [l EXCEPT !.items = sm_remove(l.items, index)]

\* LinkedList::remove, the statements after it: relink the neighbours of the
\* node taken out, or move head / tail
remove_relink(l, item) ==
    LET items1 == IF item.prev_index # None
                  THEN set_next(l.items, item.prev_index, item.next_index)
                  ELSE l.items
        head1 == IF item.prev_index # None THEN l.head ELSE item.next_index
        items2 == IF item.next_index # None
                  THEN set_prev(items1, item.next_index, item.prev_index)
                  ELSE items1
        tail1 == IF item.next_index # None THEN l.tail ELSE item.prev_index
    IN [head |-> head1, tail |-> tail1, items |-> items2]

\* LinkedList::remove
remove(l, index) ==
    IF ~contains_key(l, index) THEN Result(l)
    ELSE [Result(remove_relink(remove_take(l, index), get(l, index)))
             EXCEPT !.ret = index, !.item = get(l, index), !.val = get(l, index).value]

\* insert_after as it would be if the tail were moved to the new node always
insert_after_moves_tail(l, index, value) ==
    IF ~contains_key(l, index) THEN [Result(l) EXCEPT !.panicked = TRUE]
    ELSE
    LET next_index == get(l, index).next_index
        new_index == sm_next_key(l.items)
        items1 == sm_insert(l.items, LinkedListItem(new_index, value, next_index, index))
        items2 == IF next_index # None THEN set_prev(items1, next_index, new_index) ELSE items1
        items3 == set_next(items2, index, new_index)
    IN [Result([head |-> l.head, tail |-> new_index, items |-> items3])
           EXCEPT !.ret = new_index, !.rets = <<new_index>>]

\* insert_after as it would be with `unwrap_or_default` in place of `unwrap`
insert_after_no_unwrap(l, index, value) ==
    LET next_index == get(l, index).next_index
        new_index == sm_next_key(l.items)
        items1 == sm_insert(l.items, LinkedListItem(new_index, value, next_index, index))
        items2 == IF next_index # None THEN set_prev(items1, next_index, new_index) ELSE items1
        tail1 == IF next_index # None THEN l.tail ELSE new_index
        items3 == set_next(items2, index, new_index)
    IN [Result([head |-> l.head, tail |-> tail1, items |-> items3])
           EXCEPT !.ret = new_index, !.rets = <<new_index>>]

\* insert_after as it would be without `next.prev_index = Some(new_index)`
insert_after_no_back_link(l, index, value) ==
    IF ~contains_key(l, index) THEN [Result(l) EXCEPT !.panicked = TRUE]
    ELSE
    LET next_index == get(l, index).next_index
        new_index == sm_next_key(l.items)
        items1 == sm_insert(l.items, LinkedListItem(new_index, value, next_index, index))
        tail1 == IF next_index # None THEN l.tail ELSE new_index
        items3 == set_next(items1, index, new_index)
    IN [Result([head |-> l.head, tail |-> tail1, items |-> items3])
           EXCEPT !.ret = new_index, !.rets = <<new_index>>]

\* LinkedList::insert_after (the unwrap on a key that does not resolve panics)
insert_after(l, index, value) ==
    IF ~contains_key(l, index) THEN [Result(l) EXCEPT !.panicked = TRUE]
    ELSE
    LET next_index == get(l, index).next_index
        new_index == sm_next_key(l.items)
        items1 == sm_insert(l.items, LinkedListItem(new_index, value, next_index, index))
        items2 == IF next_index # None THEN set_prev(items1, next_index, new_index) ELSE items1
        tail1 == IF next_index # None THEN l.tail ELSE new_index
        items3 == set_next(items2, index, new_index)
    IN [Result([head |-> l.head, tail |-> tail1, items |-> items3])
           EXCEPT !.ret = new_index, !.rets = <<new_index>>]

\* insert_before as it would be without `prev.next_index = Some(new_index)`
insert_before_prev_not_linked(l, index, value) ==
    IF ~contains_key(l, index) THEN [Result(l) EXCEPT !.panicked = TRUE]
    ELSE
    LET prev_index == get(l, index).prev_index
        new_index == sm_next_key(l.items)
        items1 == sm_insert(l.items, LinkedListItem(new_index, value, index, prev_index))
        head1 == IF prev_index # None THEN l.head ELSE new_index
        items3 == set_prev(items1, index, new_index)
    IN [Result([head |-> head1, tail |-> l.tail, items |-> items3])
           EXCEPT !.ret = new_index, !.rets = <<new_index>>]

\* LinkedList::insert_before (the unwrap on a key that does not resolve panics)
insert_before(l, index, value) ==
    IF ~contains_key(l, index) THEN [Result(l) EXCEPT !.panicked = TRUE]
    ELSE
    LET prev_index == get(l, index).prev_index
        new_index == sm_next_key(l.items)
        items1 == sm_insert(l.items, LinkedListItem(new_index, value, index, prev_index))
        items2 == IF prev_index # None THEN set_next(items1, prev_index, new_index) ELSE items1
        head1 == IF prev_index # None THEN l.head ELSE new_index
        items3 == set_prev(items2, index, new_index)
    IN [Result([head |-> head1, tail |-> l.tail, items |-> items3])
           EXCEPT !.ret = new_index, !.rets = <<new_index>>]

\* pop_back as it would be without `prev.next_index = None`
pop_back_next_kept(l) ==
    IF l.tail = None \/ ~contains_key(l, l.tail) THEN Result(l)
    ELSE
    LET old_tail == get(l, l.tail)
        items0 == sm_remove(l.items, l.tail)
        head1 == IF old_tail.prev_index # None THEN l.head ELSE None
    IN [Result([head |-> head1, tail |-> old_tail.prev_index, items |-> items0])
           EXCEPT !.ret = l.tail, !.item = old_tail, !.val = old_tail.value]

\* pop_back as it would be without `self.head = None` for the last node
pop_back_head_kept(l) ==
    IF l.tail = None \/ ~contains_key(l, l.tail) THEN Result(l)
    ELSE
    LET old_tail == get(l, l.tail)
        items0 == sm_remove(l.items, l.tail)
        items1 == IF old_tail.prev_index # None
                  THEN set_next(items0, old_tail.prev_index, None)
                  ELSE items0
    IN [Result([head |-> l.head, tail |-> old_tail.prev_index, items |-> items1])
           EXCEPT !.ret = l.tail, !.item = old_tail, !.val = old_tail.value]

\* LinkedList::pop_back
pop_back(l) ==
    IF l.tail = None \/ ~contains_key(l, l.tail) THEN Result(l)
    ELSE
    LET old_tail == get(l, l.tail)
        items0 == sm_remove(l.items, l.tail)
        items1 == IF old_tail.prev_index # None
                  THEN set_next(items0, old_tail.prev_index, None)
                  ELSE items0
        head1 == IF old_tail.prev_index # None THEN l.head ELSE None
    IN [Result([head |-> head1, tail |-> old_tail.prev_index, items |-> items1])
           EXCEPT !.ret = l.tail, !.item = old_tail, !.val = old_tail.value]

\* LinkedList::pop_front (get_mut(next).unwrap() panics when next does not resolve)
pop_front(l) ==
    IF l.head = None \/ ~contains_key(l, l.head) THEN Result(l)
    ELSE
    LET old_head == get(l, l.head)
        items0 == sm_remove(l.items, l.head)
        l0 == [head |-> old_head.next_index, tail |-> l.tail, items |-> items0]
    IN IF old_head.next_index # None
       THEN IF sm_contains_key(items0, old_head.next_index)
            THEN [Result([l0 EXCEPT !.items = set_prev(items0, old_head.next_index, None)])
                     EXCEPT !.ret = l.head, !.item = old_head, !.val = old_head.value]
            ELSE [Result(l0) EXCEPT !.panicked = TRUE]
       ELSE [Result([l0 EXCEPT !.tail = None])
                EXCEPT !.ret = l.head, !.item = old_head, !.val = old_head.value]

\* `while let Some(_popped) = list.pop_back() { .. }` (from_back) and the same
\* loop over pop_front: rets holds, per pop that returned Some, the key of the
\* node popped, the value returned and the tail (the head, for pop_front) the
\* list has after it.  The loop is cut after `fuel` pops.
RECURSIVE pop_loop(_, _, _, _)
pop_loop(l, from_back, popped, fuel) ==
    LET p == IF from_back THEN pop_back(l) ELSE pop_front(l) IN
    IF p.panicked THEN [Result(p.list) EXCEPT !.rets = popped, !.panicked = TRUE]
    ELSE IF p.item = NoItem \/ fuel = 0 THEN [Result(p.list) EXCEPT !.rets = popped]
    ELSE pop_loop(p.list, from_back,
                  Append(popped, [key |-> p.ret, value |-> p.val,
                                  end |-> IF from_back THEN p.list.tail ELSE p.list.head]),
                  fuel - 1)

\* push_back, first statement: `self.items.insert_with_key(..)`, the new node
\* pointing back at the tail; ret is the key minted
push_back_insert(l, value) ==
    LET index == sm_next_key(l.items) IN
    [Result([l EXCEPT !.items = sm_insert(l.items, LinkedListItem(index, value, None, l.tail))])
        EXCEPT !.ret = index, !.rets = <<index>>]

\* push_back, the statements after it: `match self.tail {..}; self.tail = Some(index)`
push_back_link(l, index) ==
    [head |-> IF l.tail # None THEN l.head ELSE index,
     tail |-> index,
     items |-> IF l.tail # None THEN set_next(l.items, l.tail, index) ELSE l.items]

\* push_front, first statement: `self.items.insert_with_key(..)`
push_front_insert(l, value) ==
    LET index == sm_next_key(l.items) IN
    [Result([l EXCEPT !.items = sm_insert(l.items, LinkedListItem(index, value, l.head, None))])
        EXCEPT !.ret = index, !.rets = <<index>>]

\* push_front, the statements after it: `match self.head {..}; self.head = Some(index)`
push_front_link(l, index) ==
    [head |-> index,
     tail |-> IF l.head # None THEN l.tail ELSE index,
     items |-> IF l.head # None THEN set_prev(l.items, l.head, index) ELSE l.items]

\* pop_back, the statements after `self.items.remove(old_tail)` returned the
\* node old_tail
pop_back_relink(l, old_tail) ==
    Result([head |-> IF old_tail.prev_index # None THEN l.head ELSE None,
            tail |-> old_tail.prev_index,
            items |-> IF old_tail.prev_index # None
                      THEN set_next(l.items, old_tail.prev_index, None)
                      ELSE l.items])

\* pop_front, the statements after `self.items.remove(old_head)` returned the
\* node old_head; get_mut(next).unwrap() panics when next does not resolve
pop_front_relink(l, old_head) ==
    LET l0 == [l EXCEPT !.head = old_head.next_index] IN
    IF old_head.next_index # None
    THEN IF contains_key(l0, old_head.next_index)
         THEN Result([l0 EXCEPT !.items = set_prev(l0.items, old_head.next_index, None)])
         ELSE [Result(l0) EXCEPT !.panicked = TRUE]
    ELSE Result([l0 EXCEPT !.tail = None])

\* extend as it would be if it took the values from the back of the input
RECURSIVE extend_from_last(_, _)
extend_from_last(l, values) ==
    IF values = <<>> THEN Result(l)
    ELSE LET r == extend_from_last(l, Tail(values))
             p == push_back(r.list, Head(values))
         IN [Result(p.list) EXCEPT !.rets = Append(r.rets, p.ret)]

\* LinkedList::extend: push_back every value, collecting the keys
RECURSIVE extend(_, _)
extend(l, values) ==
    IF values = <<>> THEN Result(l)
    ELSE LET r == extend(l, SubSeq(values, 1, Len(values) - 1))
             p == push_back(r.list, values[Len(values)])
         IN [Result(p.list) EXCEPT !.rets = Append(r.rets, p.ret)]

\* extend_front as it would be if it took the values from the back of the
\* input, leaving them in input order at the front
RECURSIVE extend_front_from_last(_, _)
extend_front_from_last(l, values) ==
    IF values = <<>> THEN Result(l)
    ELSE LET r == extend_front_from_last(l, Tail(values))
             p == push_front(r.list, Head(values))
         IN [Result(p.list) EXCEPT !.rets = <<p.ret>> \o r.rets]

\* LinkedList::extend_front: push_front every value, collecting the keys
RECURSIVE extend_front(_, _)
extend_front(l, values) ==
    IF values = <<>> THEN Result(l)
    ELSE LET r == extend_front(l, SubSeq(values, 1, Len(values) - 1))
             p == push_front(r.list, values[Len(values)])
         IN [Result(p.list) EXCEPT !.rets = Append(r.rets, p.ret)]

\* LinkedListWalker::new
LinkedListWalker(start, reverse) == [current |-> start, reverse |-> reverse]

\* walk_next as it would be if it returned the key it stands on before it
\* moves, the starting key included
walk_next_yields_current(walker, context) ==
    IF walker.current # None /\ contains_key(context, walker.current)
    THEN LET item == get(context, walker.current)
             n == IF walker.reverse THEN item.prev_index ELSE item.next_index
         IN [walker |-> [walker EXCEPT !.current = n], ret |-> walker.current]
    ELSE [walker |-> walker, ret |-> None]

\* walk_next as it would be if a walker whose node is gone went on from the
\* head (the tail, in reverse) of the list
walk_next_restarts(walker, context) ==
    IF walker.current # None /\ contains_key(context, walker.current)
    THEN LET item == get(context, walker.current)
             n == IF walker.reverse THEN item.prev_index ELSE item.next_index
         IN [walker |-> [walker EXCEPT !.current = n], ret |-> n]
    ELSE LET n == IF walker.reverse THEN context.tail ELSE context.head
         IN [walker |-> [walker EXCEPT !.current = n], ret |-> n]

\* LinkedListWalker::walk_next: the walker afterwards and the key returned
walk_next(walker, context) ==
    IF walker.current # None /\ contains_key(context, walker.current)
    THEN LET item == get(context, walker.current)
             n == IF walker.reverse THEN item.prev_index ELSE item.next_index
         IN [walker |-> [walker EXCEPT !.current = n], ret |-> n]
    ELSE [walker |-> walker, ret |-> None]

\* the `while let Some(next) = walker.walk_next(&new_list)` loop of split_off
RECURSIVE split_off_loop(_, _, _, _)
split_off_loop(l, new_list, walker, fuel) ==
    LET w == walk_next(walker, new_list) IN
    IF w.ret = None \/ fuel = 0 THEN [list |-> l, out |-> new_list]
    ELSE LET r == remove(l, w.ret)
             n == IF r.item # NoItem THEN push_back(new_list, r.item.value).list ELSE new_list
         IN split_off_loop(r.list, n, w.walker, fuel - 1)

\* split_off as it would be without `new_list.push_back(first.value)`
split_off_first_dropped(l, index) ==
    LET walker == LinkedListWalker(index, FALSE)
        first == remove(l, index)
        done == split_off_loop(first.list, new, walker, Len(l.items.slots) + 1)
    IN [Result(done.list) EXCEPT !.out = done.out]

\* split_off as it would be if it took the first node out with items.remove
\* in place of self.remove
split_off_first_not_relinked(l, index) ==
    LET walker == LinkedListWalker(index, FALSE)
        first == get(l, index)
        l0 == remove_take(l, index)
        new_list == IF first # NoItem THEN push_back(new, first.value).list ELSE new
        done == split_off_loop(l0, new_list, walker, Len(l.items.slots) + 1)
    IN [Result(done.list) EXCEPT !.out = done.out]

\* LinkedList::split_off
split_off(l, index) ==
    LET walker == LinkedListWalker(index, FALSE)
        first == remove(l, index)
        new_list == IF first.item # NoItem THEN push_back(new, first.item.value).list ELSE new
        done == split_off_loop(first.list, new_list, walker, Len(l.items.slots) + 1)
    IN [Result(done.list) EXCEPT !.out = done.out]

\* the `while let Some(index) = current` loop of retain_mut
RECURSIVE retain_mut_loop(_, _, _, _, _)
retain_mut_loop(l, f, current, visited, fuel) ==
    IF current = None \/ fuel = 0 THEN [Result(l) EXCEPT !.rets = visited]
    ELSE IF ~contains_key(l, current)
         THEN [Result(l) EXCEPT !.rets = visited, !.panicked = TRUE]
         ELSE LET item == get(l, current)
                  l1 == IF ~f[item.value] THEN remove(l, current).list ELSE l
              IN retain_mut_loop(l1, f, item.next_index, Append(visited, current), fuel - 1)

\* retain_mut as it would be with `if f(&item.value)` in place of
\* `if !f(&item.value)`
retain_mut_keeps_rejected(l, f) ==
    LET r == retain_mut_loop(l, [v \in Values |-> ~f[v]], l.head, <<>>,
                             Len(l.items.slots) + 1)
    IN r

\* LinkedList::retain_mut; rets lists the keys the predicate was called on
retain_mut(l, f) == retain_mut_loop(l, f, l.head, <<>>, Len(l.items.slots) + 1)

\* std::iter::successors(Some(start), ..) of cursor_next / cursor_prev, cut
\* after `fuel` keys (a longer sequence has run into a cycle)
RECURSIVE successors(_, _, _, _)
successors(l, index, reverse, fuel) ==
    IF fuel = 0 THEN <<>>
    ELSE LET n == IF contains_key(l, index)
                  THEN IF reverse THEN get(l, index).prev_index ELSE get(l, index).next_index
                  ELSE None
         IN <<index>> \o (IF n = None THEN <<>> ELSE successors(l, n, reverse, fuel - 1))

\* cursor_next as it would be if it yielded only the keys after start
cursor_next_skips_start(l, start) ==
    Tail(successors(l, start, FALSE, Len(l.items.slots) + 1))

\* LinkedList::cursor_next
cursor_next(l, start) == successors(l, start, FALSE, Len(l.items.slots) + 1)

\* LinkedList::cursor_prev
cursor_prev(l, start) == successors(l, start, TRUE, Len(l.items.slots) + 1)

\* `.map(move |index| self.items.get(index).unwrap())` over a cursor, consumed
\* to its end: rets holds the keys whose items were yielded, in order; the
\* unwrap panics at the first key that does not resolve
iter_map(l, cursor) ==
    LET bad == {i \in 1..Len(cursor) : ~contains_key(l, cursor[i])} IN
    IF bad = {} THEN [Result(l) EXCEPT !.rets = cursor]
    ELSE LET first == CHOOSE i \in bad : \A j \in bad : i <= j
         IN [Result(l) EXCEPT !.rets = SubSeq(cursor, 1, first - 1), !.panicked = TRUE]

\* LinkedList::iter_next
iter_next(l, start) == iter_map(l, cursor_next(l, start))

\* LinkedList::iter_prev
iter_prev(l, start) == iter_map(l, cursor_prev(l, start))

\* iter as it would be if it started at the tail
iter_starts_at_tail(l) ==
    IF l.tail = None THEN [Result(l) EXCEPT !.panicked = TRUE]
    ELSE iter_next(l, l.tail)

\* LinkedList::iter; head.unwrap() panics on an empty list
iter(l) ==
    IF l.head = None THEN [Result(l) EXCEPT !.panicked = TRUE]
    ELSE iter_next(l, l.head)

\* LinkedList::next_of_mut: the neighbour is read from prev_index
next_of_mut(l, index) ==
    LET next == IF contains_key(l, index) THEN get(l, index).prev_index ELSE None
    IN IF next # None THEN get(l, next) ELSE NoItem

\* LinkedList::prev_of_mut
prev_of_mut(l, index) ==
    LET prev == IF contains_key(l, index) THEN get(l, index).prev_index ELSE None
    IN IF prev # None THEN get(l, prev) ELSE NoItem

\* retain as it would be if it filtered the list itself and returned it
retain_in_place(l, f) ==
    LET r == retain_mut(l, f)
    IN [Result(r.list) EXCEPT !.out = r.list, !.rets = r.rets, !.panicked = r.panicked]

\* LinkedList::retain: retain_mut on a clone (same arena, same keys); the
\* list itself is only read.  out is the list returned, rets the keys the
\* predicate was called on
retain(l, f) ==
    LET new_list == [head |-> l.head, tail |-> l.tail, items |-> l.items]
        r == retain_mut(new_list, f)
    IN [Result(l) EXCEPT !.out = r.list, !.rets = r.rets, !.panicked = r.panicked]

\* usize `a - b`: the difference, and whether it went below zero.  Below zero
\* the subtraction panics when overflow checks are on and otherwise wraps to
\* val + 2^64, which is kept as the pair (val, wrapped).
usize_sub(a, b) == [val |-> a - b, wrapped |-> a - b < 0]

\* Iterator::nth(k) on a cursor s: the k-th key counted from 0, or None.  A
\* wrapped k stands for val + 2^64, beyond the end of every cursor.
iter_nth(s, k) ==
    IF ~k.wrapped /\ k.val < Len(s) THEN s[k.val + 1] ELSE None

\* nth as it would be with `self.len() - n` in place of `self.len() - n - 1`
nth_off_by_one(l, n, overflow_checks) ==
    IF n < len(l) \div 2
    THEN IF l.head = None THEN [Result(l) EXCEPT !.panicked = TRUE]
         ELSE [Result(l) EXCEPT !.ret = iter_nth(cursor_next(l, l.head), usize_sub(n, 0))]
    ELSE IF l.tail = None THEN [Result(l) EXCEPT !.panicked = TRUE]
         ELSE LET k == usize_sub(len(l), n)
              IN IF k.wrapped /\ overflow_checks
                 THEN [Result(l) EXCEPT !.panicked = TRUE]
                 ELSE [Result(l) EXCEPT !.ret = iter_nth(cursor_prev(l, l.tail), k)]

\* LinkedList::nth; head.unwrap() / tail.unwrap() panic on None, and
\* `self.len() - n - 1` goes below zero for n >= len()
nth(l, n, overflow_checks) ==
    IF n < len(l) \div 2
    THEN IF l.head = None THEN [Result(l) EXCEPT !.panicked = TRUE]
         ELSE [Result(l) EXCEPT !.ret = iter_nth(cursor_next(l, l.head), usize_sub(n, 0))]
    ELSE IF l.tail = None THEN [Result(l) EXCEPT !.panicked = TRUE]
         ELSE LET k == usize_sub(len(l) - n, 1)
                  under == usize_sub(len(l), n).wrapped \/ k.wrapped
              IN IF under /\ overflow_checks
                 THEN [Result(l) EXCEPT !.panicked = TRUE]
                 ELSE [Result(l) EXCEPT !.ret =
                          iter_nth(cursor_prev(l, l.tail), [val |-> k.val, wrapped |-> under])]

\* ------------------------------------------------------------------ state
VARIABLES
    list,     \* the LinkedList under test
    pre,      \* list, issued and freed as they were before the last operation
    op,       \* the last operation: name, arguments and what it returned
    issued,   \* every key an inserting operation of `list` has returned
    freed,    \* every key of `list` whose node has been removed
    orig,     \* the list as it was handed to the remover threads
    indexes,  \* the keys every remover thread goes through, in order
    mutex,    \* Mutex<LinkedList>: 0 when free, else the thread holding it
    thread,   \* per remover thread: position in its loop and what it has seen
    walker,   \* a LinkedListWalker stepped against `list`
    walked,   \* where the walker started and what its walk_next calls returned
    item_locks, \* LinkedListCell::item_locks: the lock flag of each key that has one
    cell,     \* per thread calling into a LinkedListCell: its call and position in it
    worker    \* per thread working on a Mutex<LinkedList>: its call and position in it

listvars == <<list, pre, op, issued, freed>>
mtvars == <<orig, indexes, mutex, thread>>
walkvars == <<walker, walked>>
cellvars == <<item_locks, cell>>
vars == <<list, pre, op, issued, freed, orig, indexes, mutex, thread,
          walker, walked, item_locks, cell, worker>>

Threads == 1..NumThreads

\* a remover thread before its loop; got holds the keys its remove calls
\* returned Some for, item the node its current remove call took out
ThreadStart == [pc |-> "idle", i |-> 1, got |-> {}, calls |-> 0, item |-> NoItem]

\* the inserting operations: those that return keys they minted
InsertingOps == {"push_back", "push_front", "insert_after", "insert_before",
                 "extend", "extend_front"}

\* a predicate argument for the calls that take none
NoPred == [v \in Values |-> TRUE]

NoOp == [name |-> "none", index |-> None, value |-> NoValue, values |-> <<>>,
         f |-> NoPred, ret |-> None, item |-> NoItem, val |-> NoValue,
         rets |-> <<>>, out |-> new, panicked |-> FALSE]

RangeOf(s) == {s[i] : i \in 1..Len(s)}

\* no walker made yet
NoWalker == [current |-> None, reverse |-> FALSE]

\* the record of a walk: the key the walker was made at, what walk_next
\* returned call by call (None included), whether the structure of the list has
\* stayed as it was since the walker was made, and whether a value was written
NoWalk == [start |-> None, rets |-> <<>>, steady |-> TRUE, written |-> FALSE]

\* a thread that is not inside a call into the cell.  index is the key the
\* call was given or has locked, target the key a removing call takes out,
\* item the node it read, got the keys of the nodes the thread's calls returned
CellStart == [pc |-> "idle", call |-> "none", index |-> None, value |-> NoValue,
              target |-> None, item |-> NoItem, got |-> {}, calls |-> 0]

\* a thread that does not hold the mutex; done: it has completed a call
WorkerStart == [pc |-> "idle", call |-> "none", index |-> None, value |-> NoValue,
                item |-> NoItem, done |-> FALSE]

\* the scenarios that are not running
NoThreads == thread = [t \in Threads |-> ThreadStart]
NoWalking == walker = NoWalker /\ walked = NoWalk
NoCell == item_locks = <<>> /\ cell = [t \in Threads |-> CellStart]
NoWorkers == worker = [t \in Threads |-> WorkerStart]

\* One public call on `list`; r is the Result the call computes.  A behaviour
\* is any sequence of calls; pre and op record one of them, the observed
\* call, which is the last call of the behaviour.  values and f are the
\* sequence and the predicate handed to the calls that take one.
CallWith(name, index, value, values, f, r) ==
    LET minted == IF name \in InsertingOps THEN RangeOf(r.rets) ELSE {} IN
    /\ op.name = "none"
    /\ UNCHANGED <<mtvars, walkvars, cellvars, worker>>
    /\ Cardinality(issued \cup minted) <= MaxKeys
    /\ list' = r.list
    /\ issued' = issued \cup minted
    /\ freed' = freed \cup (sm_keys(list.items) \ sm_keys(r.list.items))
                      \cup (IF name \in {"remove", "pop_back", "pop_front"} /\ r.item # NoItem
                            THEN {r.ret} ELSE {})
    /\ \/ UNCHANGED <<pre, op>>
       \/ /\ pre' = [list |-> list, issued |-> issued, freed |-> freed]
          /\ op' = [name |-> name, index |-> index, value |-> value,
                    values |-> values, f |-> f, ret |-> r.ret, item |-> r.item,
                    val |-> r.val, rets |-> r.rets, out |-> r.out,
                    panicked |-> r.panicked]

\* a call that takes neither a sequence nor a predicate
Call(name, index, value, r) == CallWith(name, index, value, <<>>, NoPred, r)

\* keys a caller can pass: those this list has returned, and a foreign one
Args == issued \cup {Foreign}

Init ==
    /\ list = new
    /\ pre = [list |-> new, issued |-> {}, freed |-> {}]
    /\ op = NoOp
    /\ issued = {}
    /\ freed = {}
    /\ orig = new
    /\ indexes = <<>>
    /\ mutex = 0
    /\ NoThreads
    /\ NoWalking
    /\ NoCell
    /\ NoWorkers

PushBack ==
    \E v \in Values :
        Call("push_back", None, v, push_back(list, v))

PushFront ==
    \E v \in Values :
        Call("push_front", None, v, push_front(list, v))

Remove ==
    \E index \in Args : Call("remove", index, NoValue, remove(list, index))

InsertAfter ==
    \E index \in Args, v \in Values :
        Call("insert_after", index, v, insert_after(list, index, v))

InsertBefore ==
    \E index \in Args, v \in Values :
        Call("insert_before", index, v, insert_before(list, index, v))

PopBack == Call("pop_back", None, NoValue, pop_back(list))

PopFront == Call("pop_front", None, NoValue, pop_front(list))

\* pop_back until it returns None
PopBackLoop ==
    Call("pop_back_loop", None, NoValue,
         pop_loop(list, TRUE, <<>>, Len(list.items.slots) + 1))

\* pop_front until it returns None
PopFrontLoop ==
    Call("pop_front_loop", None, NoValue,
         pop_loop(list, FALSE, <<>>, Len(list.items.slots) + 1))

\* input sequences of extend / extend_front
Inputs == UNION {[1..n -> Values] : n \in 0..MaxExtend}

Extend ==
    \E values \in Inputs :
        CallWith("extend", None, NoValue, values, NoPred, extend(list, values))

ExtendFront ==
    \E values \in Inputs :
        CallWith("extend_front", None, NoValue, values, NoPred, extend_front(list, values))

SplitOff ==
    \E index \in Args : Call("split_off", index, NoValue, split_off(list, index))

RetainMut ==
    \E f \in [Values -> BOOLEAN] :
        CallWith("retain_mut", None, NoValue, <<>>, f, retain_mut(list, f))

Retain ==
    \E f \in [Values -> BOOLEAN] :
        CallWith("retain", None, NoValue, <<>>, f, retain(list, f))

Iter == Call("iter", None, NoValue, iter(list))

IterNext ==
    \E start \in Args : Call("iter_next", start, NoValue, iter_next(list, start))

IterPrev ==
    \E start \in Args : Call("iter_prev", start, NoValue, iter_prev(list, start))

CursorNext ==
    \E start \in Args :
        Call("cursor_next", start, NoValue,
             [Result(list) EXCEPT !.rets = cursor_next(list, start)])

CursorPrev ==
    \E start \in Args :
        Call("cursor_prev", start, NoValue,
             [Result(list) EXCEPT !.rets = cursor_prev(list, start)])

NextOfMut ==
    \E index \in Args :
        Call("next_of_mut", index, NoValue,
             [Result(list) EXCEPT !.item = next_of_mut(list, index)])

PrevOfMut ==
    \E index \in Args :
        Call("prev_of_mut", index, NoValue,
             [Result(list) EXCEPT !.item = prev_of_mut(list, index)])

Get ==
    \E index \in Args :
        Call("get", index, NoValue, [Result(list) EXCEPT !.item = get(list, index)])

GetMut ==
    \E index \in Args, v \in Values : Call("get_mut", index, v, get_mut(list, index, v))

NextOf ==
    \E index \in Args :
        Call("next_of", index, NoValue, [Result(list) EXCEPT !.item = next_of(list, index)])

PrevOf ==
    \E index \in Args :
        Call("prev_of", index, NoValue, [Result(list) EXCEPT !.item = prev_of(list, index)])

\* nth(n); the build has overflow checks on (debug profile) or off (release)
Nth ==
    \E n \in 0..(MaxKeys + 1), overflow_checks \in BOOLEAN :
        Call("nth", None, n, nth(list, n, overflow_checks))

Next ==
    \/ PushBack
    \/ PushFront
    \/ Remove
    \/ InsertAfter
    \/ InsertBefore
    \/ PopBack
    \/ PopFront
    \/ PopBackLoop
    \/ PopFrontLoop
    \/ Extend
    \/ ExtendFront
    \/ SplitOff
    \/ RetainMut
    \/ Retain
    \/ Iter
    \/ IterNext
    \/ IterPrev
    \/ CursorNext
    \/ CursorPrev
    \/ NextOfMut
    \/ PrevOfMut
    \/ Get
    \/ GetMut
    \/ NextOf
    \/ PrevOf
    \/ Nth

Spec == Init /\ [][Next]_vars


\* ------------------------------------------- removers behind one mutex
\* the subsequences of s
RECURSIVE SubSeqs(_)
SubSeqs(s) ==
    IF s = <<>> THEN {<<>>}
    ELSE LET rest == SubSeqs(Tail(s)) IN rest \cup {<<s[1]>> \o r : r \in rest}

\* `list.extend(0..n)`, the keys it returned, and the keys the threads take
InitMT ==
    \E n \in 1..MaxKeys :
        LET built == extend(new, [i \in 1..n |-> i - 1]) IN
        /\ list = built.list
        /\ orig = built.list
        /\ issued = RangeOf(built.rets)
        /\ indexes \in SubSeqs(built.rets)
        /\ freed = {}
        /\ pre = [list |-> new, issued |-> {}, freed |-> {}]
        /\ op = NoOp
        /\ mutex = 0
        /\ thread = [t \in Threads |-> ThreadStart]
        /\ NoWalking
        /\ NoCell
        /\ NoWorkers

\* a mutex whose lock() does not wait for the holder
MutexNeverHeld == TRUE

\* Mutex::lock returns only while no thread holds the mutex
MutexFree == mutex = 0

\* `list_mut.lock().unwrap()` for the next key of the loop
MtLock(t) ==
    /\ thread[t].pc = "idle"
    /\ thread[t].i <= Len(indexes)
    /\ MutexFree
    /\ mutex' = t
    /\ thread' = [thread EXCEPT ![t].pc = "locked"]
    /\ UNCHANGED <<listvars, orig, indexes, walkvars, cellvars, worker>>

\* `let item = self.items.remove(index)?` inside remove
MtTake(t) ==
    LET index == indexes[thread[t].i] IN
    /\ thread[t].pc = "locked"
    /\ list' = remove_take(list, index)
    /\ freed' = freed \cup (IF contains_key(list, index) THEN {index} ELSE {})
    /\ thread' = [thread EXCEPT
                     ![t].pc = IF contains_key(list, index) THEN "relink" ELSE "unlock",
                     ![t].item = get(list, index),
                     ![t].calls = @ + 1,
                     ![t].got = IF contains_key(list, index) THEN @ \cup {index} ELSE @]
    /\ UNCHANGED <<pre, op, issued, orig, indexes, mutex, walkvars, cellvars, worker>>

\* the rest of remove: relink the neighbours, move head / tail
MtRelink(t) ==
    /\ thread[t].pc = "relink"
    /\ list' = remove_relink(list, thread[t].item)
    /\ thread' = [thread EXCEPT ![t].pc = "unlock", ![t].item = NoItem]
    /\ UNCHANGED <<pre, op, issued, freed, orig, indexes, mutex, walkvars, cellvars, worker>>

\* the MutexGuard is dropped at the end of the statement; on to the next key
MtUnlock(t) ==
    /\ thread[t].pc = "unlock"
    /\ mutex' = IF mutex = t THEN 0 ELSE mutex
    /\ thread' = [thread EXCEPT ![t].pc = "idle", ![t].i = @ + 1]
    /\ UNCHANGED <<listvars, orig, indexes, walkvars, cellvars, worker>>

NextMT ==
    \/ \E t \in Threads : MtLock(t)
    \/ \E t \in Threads : MtTake(t)
    \/ \E t \in Threads : MtRelink(t)
    \/ \E t \in Threads : MtUnlock(t)

SpecMT == InitMT /\ [][NextMT]_vars

\* ------------------------------------------------- a walker on the list
\* `list.extend(0..n)` and `LinkedListWalker::new(&list, start, reverse)` at
\* one of the keys returned
InitWalk ==
    \E n \in 1..MaxKeys :
        LET built == extend(new, [i \in 1..n |-> i - 1]) IN
        /\ list = built.list
        /\ issued = RangeOf(built.rets)
        /\ freed = {}
        /\ pre = [list |-> new, issued |-> {}, freed |-> {}]
        /\ op = NoOp
        /\ orig = new
        /\ indexes = <<>>
        /\ mutex = 0
        /\ NoThreads
        /\ NoCell
        /\ NoWorkers
        /\ \E start \in RangeOf(built.rets), reverse \in BOOLEAN :
              /\ walker = LinkedListWalker(start, reverse)
              /\ walked = [NoWalk EXCEPT !.start = start]

\* One call on `list` made while the walker exists.  A call that panics ends
\* the program, so no step follows it.  structural: the call can change links.
WkCall(name, r, structural) ==
    LET minted == IF name \in InsertingOps THEN RangeOf(r.rets) ELSE {} IN
    /\ ~r.panicked
    /\ Cardinality(issued \cup minted) <= MaxKeys
    /\ list' = r.list
    /\ issued' = issued \cup minted
    /\ freed' = freed \cup (sm_keys(list.items) \ sm_keys(r.list.items))
    /\ walked' = [walked EXCEPT
                     !.steady = @ /\ (~structural \/ r.list = list),
                     !.written = @ \/ (~structural /\ r.list # list)]
    /\ UNCHANGED <<pre, op, mtvars, walker, cellvars, worker>>

WkInsertAfter ==
    \E index \in Args, v \in Values :
        WkCall("insert_after", insert_after(list, index, v), TRUE)

WkRemove ==
    \E index \in Args : WkCall("remove", remove(list, index), TRUE)

\* `list.get_mut(index).unwrap().value = v` on the key walk_next returned last
WkGetMut ==
    \E v \in Values :
        LET index == walked.rets[Len(walked.rets)] IN
        /\ walked.rets # <<>>
        /\ contains_key(list, index)
        /\ WkCall("get_mut", get_mut(list, index, v), FALSE)

\* walker.walk_next(&list); the calls recorded stop at MaxKeys + 1
WkStep ==
    /\ Len(walked.rets) <= MaxKeys
    /\ walker' = walk_next(walker, list).walker
    /\ walked' = [walked EXCEPT !.rets = Append(@, walk_next(walker, list).ret)]
    /\ UNCHANGED <<listvars, mtvars, cellvars, worker>>

NextWalk ==
    \/ WkInsertAfter
    \/ WkRemove
    \/ WkGetMut
    \/ WkStep

SpecWalk == InitWalk /\ [][NextWalk]_vars

\* ------------------------------------- any calls behind one whole-list lock
\* the calls a worker makes on the shared list
WorkerCalls == {"push_back", "push_front", "pop_back", "pop_front", "remove"}

\* `list.lock().unwrap()` and the call made under the guard, with its arguments
LkLock(t) ==
    \E call \in WorkerCalls :
    \E index \in IF call = "remove" THEN Args ELSE {None} :
    \E value \in IF call \in {"push_back", "push_front"} THEN Values ELSE {NoValue} :
        /\ worker[t].pc = "idle"
        /\ MutexFree
        /\ call \in {"push_back", "push_front"} => Cardinality(issued) < MaxKeys
        /\ mutex' = t
        /\ worker' = [worker EXCEPT ![t].pc = "first", ![t].call = call,
                                    ![t].index = index, ![t].value = value]
        /\ UNCHANGED <<listvars, orig, indexes, thread, walkvars, cellvars>>

\* the first statement of the call: the arena insert or remove
LkFirst(t) ==
    LET w == worker[t]
        target == CASE w.call = "pop_back" -> list.tail
                    [] w.call = "pop_front" -> list.head
                    [] OTHER -> w.index
        ins == IF w.call = "push_back" THEN push_back_insert(list, w.value)
               ELSE push_front_insert(list, w.value)
    IN /\ w.pc = "first"
       /\ IF w.call \in {"push_back", "push_front"}
          THEN /\ list' = ins.list
               /\ issued' = issued \cup {ins.ret}
               /\ freed' = freed
               /\ worker' = [worker EXCEPT ![t].pc = "second", ![t].index = ins.ret]
          ELSE /\ list' = remove_take(list, target)
               /\ issued' = issued
               /\ freed' = freed \cup (IF contains_key(list, target) THEN {target} ELSE {})
               /\ worker' = [worker EXCEPT
                                ![t].pc = IF contains_key(list, target)
                                          THEN "second" ELSE "unlock",
                                ![t].item = get(list, target)]
       /\ UNCHANGED <<pre, op, mtvars, walkvars, cellvars>>

\* the rest of the call: the links of the neighbours, head and tail
LkSecond(t) ==
    LET w == worker[t]
        r == CASE w.call = "push_back" -> Result(push_back_link(list, w.index))
               [] w.call = "push_front" -> Result(push_front_link(list, w.index))
               [] w.call = "pop_back" -> pop_back_relink(list, w.item)
               [] w.call = "pop_front" -> pop_front_relink(list, w.item)
               [] OTHER -> Result(remove_relink(list, w.item))
    IN /\ w.pc = "second"
       /\ list' = r.list
       /\ worker' = [worker EXCEPT ![t].pc = IF r.panicked THEN "panicked" ELSE "unlock",
                                   ![t].item = NoItem]
       /\ UNCHANGED <<pre, op, issued, freed, mtvars, walkvars, cellvars>>

\* the MutexGuard is dropped
LkUnlock(t) ==
    /\ worker[t].pc = "unlock"
    /\ mutex' = IF mutex = t THEN 0 ELSE mutex
    /\ worker' = [worker EXCEPT ![t] = [WorkerStart EXCEPT !.done = TRUE]]
    /\ UNCHANGED <<listvars, orig, indexes, thread, walkvars, cellvars>>

NextLK ==
    \/ \E t \in Threads : LkLock(t)
    \/ \E t \in Threads : LkFirst(t)
    \/ \E t \in Threads : LkSecond(t)
    \/ \E t \in Threads : LkUnlock(t)

SpecLK == Init /\ [][NextLK]_vars

\* ------------------------------------------- threads on a LinkedListCell
\* `LinkedListCell::new(list)` on a list built by extend, shared by the threads
InitCell ==
    \E n \in 1..MaxKeys :
        LET built == extend(new, [i \in 1..n |-> i - 1]) IN
        /\ list = built.list
        /\ issued = RangeOf(built.rets)
        /\ freed = {}
        /\ pre = [list |-> new, issued |-> {}, freed |-> {}]
        /\ op = NoOp
        /\ orig = built.list
        /\ indexes = <<>>
        /\ mutex = 0
        /\ NoThreads
        /\ NoWalking
        /\ NoCell
        /\ NoWorkers

\* SecondaryMap::insert(index, AtomicBool::new(false)): a new entry, or the
\* entry of index replaced
locks_insert(locks, index) ==
    [k \in DOMAIN locks \cup {index} |-> IF k = index THEN FALSE ELSE locks[k]]

\* the thread record after the call returned; key is the node it returned
Returned(c, key) ==
    [CellStart EXCEPT !.got = c.got \cup (IF key # None THEN {key} ELSE {}),
                      !.calls = c.calls + 1]

\* where a call goes on after lock_item
AfterLock(call) == IF call = "get_mut" THEN "gm_get" ELSE "pop_read"

\* get_mut(index, cb) up to lock_item's `if !self.inner().contains_key(index)`
CellGetMut(t) ==
    \E index \in Args, v \in Values :
        /\ cell[t].pc = "idle"
        /\ cell[t].calls < MaxCalls
        /\ cell' = [cell EXCEPT ![t].call = "get_mut", ![t].index = index,
                                ![t].value = v,
                                ![t].pc = IF contains_key(list, index)
                                          THEN "lock_entry" ELSE AfterLock("get_mut")]
        /\ UNCHANGED <<listvars, mtvars, walkvars, item_locks, worker>>

\* pop_back / pop_front up to `let back = self.inner().tail?`
CellPop(t) ==
    \E call \in {"pop_back", "pop_front"} :
        LET end == IF call = "pop_back" THEN list.tail ELSE list.head IN
        /\ cell[t].pc = "idle"
        /\ cell[t].calls < MaxCalls
        /\ cell' = [cell EXCEPT ![t] =
               IF end = None THEN Returned(cell[t], None)
               ELSE [@ EXCEPT !.call = call, !.index = end, !.pc = "lock_check"]]
        /\ UNCHANGED <<listvars, mtvars, walkvars, item_locks, worker>>

\* lock_item: `if !self.inner().contains_key(index) { return }`
CellLockCheck(t) ==
    /\ cell[t].pc = "lock_check"
    /\ cell' = [cell EXCEPT ![t].pc = IF contains_key(list, cell[t].index)
                                      THEN "lock_entry" ELSE AfterLock(cell[t].call)]
    /\ UNCHANGED <<listvars, mtvars, walkvars, item_locks, worker>>

\* lock_item: `if !self.item_locks().contains_key(index)`
CellLockEntry(t) ==
    /\ cell[t].pc = "lock_entry"
    /\ cell' = [cell EXCEPT ![t].pc = IF cell[t].index \in DOMAIN item_locks
                                      THEN "lock_spin" ELSE "lock_insert"]
    /\ UNCHANGED <<listvars, mtvars, walkvars, item_locks, worker>>

\* lock_item: `self.item_locks_mut().insert(index, AtomicBool::new(false))`
CellLockInsert(t) ==
    /\ cell[t].pc = "lock_insert"
    /\ item_locks' = locks_insert(item_locks, cell[t].index)
    /\ cell' = [cell EXCEPT ![t].pc = "lock_spin"]
    /\ UNCHANGED <<listvars, mtvars, walkvars, worker>>

\* lock_item: `while ..swap(true, Acquire) { spin_loop() }`; the swap that
\* finds false ends the loop, one that finds true changes nothing
CellLockSpin(t) ==
    /\ cell[t].pc = "lock_spin"
    /\ ~item_locks[cell[t].index]
    /\ item_locks' = [item_locks EXCEPT ![cell[t].index] = TRUE]
    /\ cell' = [cell EXCEPT ![t].pc = AfterLock(cell[t].call)]
    /\ UNCHANGED <<listvars, mtvars, walkvars, worker>>

\* get_mut: `inner.get_mut(index)?`; the callback starts on the node, or the
\* call returns None, past unlock_item
CellGmGet(t) ==
    /\ cell[t].pc = "gm_get"
    /\ cell' = [cell EXCEPT ![t] = IF contains_key(list, cell[t].index)
                                   THEN [@ EXCEPT !.pc = "cb"]
                                   ELSE Returned(@, None)]
    /\ UNCHANGED <<listvars, mtvars, walkvars, item_locks, worker>>

\* get_mut: the callback writes the value through its &mut and returns; the
\* write lands in the node's slot
CellCb(t) ==
    LET index == cell[t].index IN
    /\ cell[t].pc = "cb"
    /\ list' = IF contains_key(list, index) THEN get_mut(list, index, cell[t].value).list
               ELSE list
    /\ cell' = [cell EXCEPT ![t].pc = "gm_unlock"]
    /\ UNCHANGED <<pre, op, issued, freed, mtvars, walkvars, item_locks, worker>>

\* get_mut: `self.unlock_item(index); Some(())`
CellUnlock(t) ==
    /\ cell[t].pc = "gm_unlock"
    /\ item_locks' = IF cell[t].index \in DOMAIN item_locks
                     THEN [item_locks EXCEPT ![cell[t].index] = FALSE]
                     ELSE item_locks
    /\ cell' = [cell EXCEPT ![t] = Returned(@, None)]
    /\ UNCHANGED <<listvars, mtvars, walkvars, worker>>

\* remove(index) up to the arena's check of the key and read of the node
CellRemove(t) ==
    \E index \in Args :
        /\ cell[t].pc = "idle"
        /\ cell[t].calls < MaxCalls
        /\ cell' = [cell EXCEPT ![t] =
               IF contains_key(list, index)
               THEN [@ EXCEPT !.call = "remove", !.index = index, !.target = index,
                              !.item = get(list, index), !.pc = "take"]
               ELSE Returned(@, None)]
        /\ UNCHANGED <<listvars, mtvars, walkvars, item_locks, worker>>

\* the inner pop_back / pop_front up to the arena's check of the key and read
\* of the node: `self.tail.and_then(|old_tail| self.items.remove(old_tail) ..`
CellPopRead(t) ==
    LET end == IF cell[t].call = "pop_back" THEN list.tail ELSE list.head IN
    /\ cell[t].pc = "pop_read"
    /\ cell' = [cell EXCEPT ![t] =
           IF end # None /\ contains_key(list, end)
           THEN [@ EXCEPT !.target = end, !.item = get(list, end), !.pc = "take"]
           ELSE Returned(@, None)]
    /\ UNCHANGED <<listvars, mtvars, walkvars, item_locks, worker>>

\* `self.items.remove(..)`: the slot is vacated (it stays vacated when a racing
\* call has vacated it since this call checked the key)
CellTake(t) ==
    /\ cell[t].pc = "take"
    /\ list' = remove_take(list, cell[t].target)
    /\ freed' = freed \cup {cell[t].target}
    /\ cell' = [cell EXCEPT ![t].pc = "relink"]
    /\ UNCHANGED <<pre, op, issued, mtvars, walkvars, item_locks, worker>>

\* the rest of remove / pop_back / pop_front with the node read; the call
\* returns that node (its value)
CellRelink(t) ==
    LET c == cell[t]
        r == CASE c.call = "pop_back" -> pop_back_relink(list, c.item)
               [] c.call = "pop_front" -> pop_front_relink(list, c.item)
               [] OTHER -> Result(remove_relink(list, c.item))
    IN /\ c.pc = "relink"
       /\ list' = r.list
       /\ cell' = [cell EXCEPT ![t] = IF r.panicked THEN [@ EXCEPT !.pc = "panicked"]
                                      ELSE Returned(@, c.item.index)]
       /\ UNCHANGED <<pre, op, issued, freed, mtvars, walkvars, item_locks, worker>>

\* push_back(value): `self.items.insert_with_key(..)`
CellPushBack(t) ==
    \E v \in Values :
        LET ins == push_back_insert(list, v) IN
        /\ cell[t].pc = "idle"
        /\ cell[t].calls < MaxCalls
        /\ Cardinality(issued) < MaxKeys
        /\ list' = ins.list
        /\ issued' = issued \cup {ins.ret}
        /\ cell' = [cell EXCEPT ![t].call = "push_back", ![t].index = ins.ret,
                                ![t].value = v, ![t].pc = "push_link"]
        /\ UNCHANGED <<pre, op, freed, mtvars, walkvars, item_locks, worker>>

\* push_back: `match self.tail {..}; self.tail = Some(index); index`
CellPushLink(t) ==
    /\ cell[t].pc = "push_link"
    /\ list' = push_back_link(list, cell[t].index)
    /\ cell' = [cell EXCEPT ![t] = Returned(@, None)]
    /\ UNCHANGED <<pre, op, issued, freed, mtvars, walkvars, item_locks, worker>>

NextCell ==
    \/ \E t \in Threads : CellGetMut(t)
    \/ \E t \in Threads : CellPop(t)
    \/ \E t \in Threads : CellLockCheck(t)
    \/ \E t \in Threads : CellLockEntry(t)
    \/ \E t \in Threads : CellLockInsert(t)
    \/ \E t \in Threads : CellLockSpin(t)
    \/ \E t \in Threads : CellGmGet(t)
    \/ \E t \in Threads : CellCb(t)
    \/ \E t \in Threads : CellUnlock(t)
    \/ \E t \in Threads : CellRemove(t)
    \/ \E t \in Threads : CellPopRead(t)
    \/ \E t \in Threads : CellTake(t)
    \/ \E t \in Threads : CellRelink(t)
    \/ \E t \in Threads : CellPushBack(t)
    \/ \E t \in Threads : CellPushLink(t)

SpecCell == InitCell /\ [][NextCell]_vars

\* the step thread t can take in its call into the cell
CellStep(t) ==
    \/ CellGetMut(t)
    \/ CellPop(t)
    \/ CellLockCheck(t)
    \/ CellLockEntry(t)
    \/ CellLockInsert(t)
    \/ CellLockSpin(t)
    \/ CellGmGet(t)
    \/ CellCb(t)
    \/ CellUnlock(t)
    \/ CellRemove(t)
    \/ CellPopRead(t)
    \/ CellTake(t)
    \/ CellRelink(t)
    \/ CellPushBack(t)
    \/ CellPushLink(t)

\* the threads under a fair scheduler: a thread that can take a step takes
\* one.  A swap that finds the flag set changes nothing and is no step.
SpecCellFair == SpecCell /\ \A t \in Threads : WF_vars(CellStep(t))

\* ------------------------------------------------------------ properties
\* keys that resolve in l
Live(l) == sm_keys(l.items)

\* the keys of l from head following next_index, and from tail following prev_index
Forward(l) == IF l.head = None THEN <<>> ELSE cursor_next(l, l.head)
Backward(l) == IF l.tail = None THEN <<>> ELSE cursor_prev(l, l.tail)

\* the values stored under a sequence of keys
ValuesAt(l, ks) == [i \in 1..Len(ks) |-> get(l, ks[i]).value]

\* s without its entries equal to k
RECURSIVE Without(_, _)
Without(s, k) ==
    IF s = <<>> THEN <<>>
    ELSE IF s[1] = k THEN Without(Tail(s), k) ELSE <<s[1]>> \o Without(Tail(s), k)

NoDuplicates(s) == \A i, j \in 1..Len(s) : s[i] = s[j] => i = j

\* C1: after any sequence of public operations, len() = 0 iff head is None
\* iff tail is None.
EmptinessEquivalence ==
    /\ (len(list) = 0) <=> (list.head = None)
    /\ (list.head = None) <=> (list.tail = None)

\* a list that held nodes and was emptied again by a remove
EmptiedByRemove ==
    /\ op.name = "remove"
    /\ len(pre.list) = 1
    /\ len(list) = 0
    /\ list.head = None

\* C2: every live key's next neighbour is live and points back at it through
\* prev_index, and every live key's prev neighbour is live and points back at
\* it through next_index.
MutualLinks ==
    \A h \in Live(list) :
        LET item == get(list, h) IN
        /\ item.next_index # None =>
              /\ contains_key(list, item.next_index)
              /\ get(list, item.next_index).prev_index = h
        /\ item.prev_index # None =>
              /\ contains_key(list, item.prev_index)
              /\ get(list, item.prev_index).next_index = h

\* a node spliced between two live neighbours, next to a slot freed earlier
SplicedBetweenNeighbours ==
    /\ op.name = "insert_after"
    /\ ~op.panicked
    /\ get(list, op.ret).next_index # None
    /\ get(list, op.ret).prev_index # None
    /\ pre.freed # {}

\* C3: on a non-empty list the next chain from head visits every live node
\* exactly once and ends at tail after len() - 1 steps, and the prev chain from
\* tail does the same down to head.
ChainCoversList ==
    len(list) > 0 =>
        /\ list.head # None /\ list.tail # None
        /\ Len(Forward(list)) = len(list)
        /\ Forward(list)[len(list)] = list.tail
        /\ NoDuplicates(Forward(list))
        /\ RangeOf(Forward(list)) = Live(list)
        /\ Len(Backward(list)) = len(list)
        /\ Backward(list)[len(list)] = list.head
        /\ NoDuplicates(Backward(list))
        /\ RangeOf(Backward(list)) = Live(list)

\* a chain of three nodes left after a node was removed from the middle of four
ChainAfterMiddleRemove ==
    /\ op.name = "remove"
    /\ len(pre.list) = 4
    /\ len(list) = 3
    /\ op.index # pre.list.head
    /\ op.index # pre.list.tail


\* C4: once a key's node has been removed (by remove or a pop), get, next_of,
\* prev_of and remove on that key return None in every later state, also after
\* later insertions have reused its slot.
FreedKeysStayDead ==
    /\ \A h \in freed :
          /\ get(list, h) = NoItem
          /\ next_of(list, h) = NoItem
          /\ prev_of(list, h) = NoItem
          /\ remove(list, h).item = NoItem
    /\ (op.name \in {"get", "next_of", "prev_of", "remove"} /\ op.index \in pre.freed)
          => op.item = NoItem

\* a lookup with a removed key whose slot holds a later node with another value
LookupAfterSlotReuse ==
    /\ op.name = "get"
    /\ op.index \in pre.freed
    /\ \E k \in Live(list) :
          /\ k[1] = op.index[1]
          /\ k # op.index
          /\ k \in issued

\* C5: every key an inserting call returns differs from every key the list
\* returned before, live or freed, and the keys of one extend differ from each
\* other.
MintedKeysAreNew ==
    (op.name \in InsertingOps /\ ~op.panicked) =>
        /\ RangeOf(op.rets) \cap pre.issued = {}
        /\ NoDuplicates(op.rets)
        /\ op.name \notin {"extend", "extend_front"} => op.rets = <<op.ret>>

\* a push_back that reuses the slot of a key freed earlier
PushIntoFreedSlot ==
    /\ op.name = "push_back"
    /\ \E h \in pre.freed : h[1] = op.ret[1]
    /\ op.ret \notin pre.issued

\* C7: push_back(v) appends v and returns the new tail, push_front(v) prepends
\* v and returns the new head; earlier keys stay live with their values and the
\* new node is linked to the old tail / head.
PushAppendsOrPrepends ==
    /\ op.name = "push_back" =>
          /\ Forward(list) = Append(Forward(pre.list), op.ret)
          /\ ValuesAt(list, Forward(list)) =
                Append(ValuesAt(pre.list, Forward(pre.list)), op.value)
          /\ op.ret = list.tail
          /\ get(list, op.ret).next_index = None
          /\ get(list, op.ret).prev_index = pre.list.tail
          /\ pre.list.tail # None => get(list, pre.list.tail).next_index = op.ret
          /\ \A h \in Live(pre.list) :
                contains_key(list, h) /\ get(list, h).value = get(pre.list, h).value
    /\ op.name = "push_front" =>
          /\ Forward(list) = <<op.ret>> \o Forward(pre.list)
          /\ ValuesAt(list, Forward(list)) =
                <<op.value>> \o ValuesAt(pre.list, Forward(pre.list))
          /\ op.ret = list.head
          /\ get(list, op.ret).prev_index = None
          /\ get(list, op.ret).next_index = pre.list.head
          /\ pre.list.head # None => get(list, pre.list.head).prev_index = op.ret
          /\ \A h \in Live(pre.list) :
                contains_key(list, h) /\ get(list, h).value = get(pre.list, h).value

\* the third of three push_back calls: a, b, c with c the new tail after b
ThirdPushBack ==
    /\ op.name = "push_back"
    /\ len(pre.list) = 2
    /\ pre.freed = {}
    /\ prev_of(list, op.ret).index = pre.list.tail
    /\ next_of(list, pre.list.head).index = pre.list.tail

\* C8: remove(h) on a live h returns h's node, shrinks len() by one, deletes h
\* from the forward sequence, moves head / tail to h's old neighbour when h was
\* an end, and leaves every other live key with its value.
RemoveDeletesOneNode ==
    (op.name = "remove" /\ contains_key(pre.list, op.index)) =>
        LET h == op.index
            old == get(pre.list, h)
        IN /\ op.item = old
           /\ op.item.index = h
           /\ len(list) = len(pre.list) - 1
           /\ Forward(list) = Without(Forward(pre.list), h)
           /\ Backward(list) = Without(Backward(pre.list), h)
           /\ ValuesAt(list, Forward(list)) =
                 ValuesAt(pre.list, Without(Forward(pre.list), h))
           /\ list.head = (IF pre.list.head = h THEN old.next_index ELSE pre.list.head)
           /\ list.tail = (IF pre.list.tail = h THEN old.prev_index ELSE pre.list.tail)
           /\ \A k \in Live(pre.list) \ {h} :
                 contains_key(list, k) /\ get(list, k).value = get(pre.list, k).value

\* the head of a list of three removed
RemovedHeadOfThree ==
    /\ op.name = "remove"
    /\ op.index = pre.list.head
    /\ len(pre.list) = 3
    /\ list.head = op.item.next_index

\* C9: get, get_mut, next_of, prev_of and remove with a key that is not live
\* return None, do not panic and leave the whole list as it was.
StaleKeyIsAbsent ==
    (op.name \in {"get", "get_mut", "next_of", "prev_of", "remove"}
        /\ ~contains_key(pre.list, op.index)) =>
        /\ op.item = NoItem
        /\ ~op.panicked
        /\ list = pre.list

\* remove called with a freed key whose slot has been reused
StaleRemoveOnReusedSlot ==
    /\ op.name = "remove"
    /\ op.index \in pre.freed
    /\ \E k \in Live(pre.list) : k[1] = op.index[1]

\* C10: pop_back leaves the list as remove(tail) would and returns that node's
\* value, pop_front likewise with head; on an empty list both return None and
\* change nothing.
PopIsRemoveOfEnd ==
    /\ op.name = "pop_back" =>
          /\ list = remove(pre.list, pre.list.tail).list
          /\ op.val = remove(pre.list, pre.list.tail).item.value
          /\ len(pre.list) = 0 => (op.val = NoValue /\ list = pre.list)
          /\ len(pre.list) > 0 => op.val \in Values
    /\ op.name = "pop_front" =>
          /\ list = remove(pre.list, pre.list.head).list
          /\ op.val = remove(pre.list, pre.list.head).item.value
          /\ len(pre.list) = 0 => (op.val = NoValue /\ list = pre.list)
          /\ len(pre.list) > 0 => op.val \in Values

\* pop_back on a list of one node, which empties it
PoppedLastNode ==
    /\ op.name = "pop_back"
    /\ len(pre.list) = 1
    /\ op.val \in Values
    /\ list.head = None


\* every remover thread has gone through all its keys
AllJoined == \A t \in Threads : thread[t].pc = "idle" /\ thread[t].i > Len(indexes)

\* s without its entries that are in the set ks
RECURSIVE WithoutAll(_, _)
WithoutAll(s, ks) ==
    IF s = <<>> THEN <<>>
    ELSE IF s[1] \in ks THEN WithoutAll(Tail(s), ks)
         ELSE <<s[1]>> \o WithoutAll(Tail(s), ks)

\* C6: threads that each call remove, under one whole-list mutex, on every key
\* of the same set S remove each key exactly once (one call returns Some, the
\* others None); after all have finished len() is down by |S| and the list is
\* the original sequence without the nodes of S.
EachKeyRemovedOnce ==
    /\ \A t, u \in Threads : t # u => thread[t].got \cap thread[u].got = {}
    /\ AllJoined =>
          /\ \A h \in RangeOf(indexes) :
                Cardinality({t \in Threads : h \in thread[t].got}) = 1
          /\ \A t \in Threads : thread[t].calls = Len(indexes)
          /\ len(list) = len(orig) - Cardinality(RangeOf(indexes))
          /\ Forward(list) = WithoutAll(Forward(orig), RangeOf(indexes))
          /\ Backward(list) = WithoutAll(Backward(orig), RangeOf(indexes))
          /\ ValuesAt(list, Forward(list)) =
                ValuesAt(orig, WithoutAll(Forward(orig), RangeOf(indexes)))
          /\ (Len(indexes) < len(orig)
                /\ indexes = SubSeq(Forward(orig), 1, Len(indexes)))
                => get(list, list.head).value = Len(indexes)

\* all threads done after removing the first two keys of a longer list, each
\* thread having won at least one of the removals
FirstTwoRemovedByAll ==
    /\ AllJoined
    /\ Len(indexes) = 2
    /\ indexes = SubSeq(Forward(orig), 1, 2)
    /\ len(orig) > 2
    /\ \A t \in {1, 2} : thread[t].got # {}
    /\ get(list, list.head).value = 2


\* C11: push_back(v) followed at once by pop_back() returns Some(v) and
\* restores the earlier len(), head, tail and forward sequence of keys and
\* values.
PushThenPopRestores ==
    op.name = "push_back" =>
        LET p == pop_back(list) IN
        /\ p.val = op.value
        /\ p.ret = op.ret
        /\ len(p.list) = len(pre.list)
        /\ p.list.head = pre.list.head
        /\ p.list.tail = pre.list.tail
        /\ Forward(p.list) = Forward(pre.list)
        /\ Backward(p.list) = Backward(pre.list)
        /\ ValuesAt(p.list, Forward(p.list)) = ValuesAt(pre.list, Forward(pre.list))

\* a push_back onto a list of two nodes, one of them in a reused slot
PushedOntoTwo ==
    /\ op.name = "push_back"
    /\ len(pre.list) = 2
    /\ pre.freed # {}
    /\ pop_back(list).val = op.value


\* the node stored under k is the same in l and m, links and value
SameNode(l, m, k) == contains_key(m, k) /\ get(m, k) = get(l, k)

\* C12: insert_after(h, v) on a live h returns a new key n with next_of(h) = n,
\* prev_of(n) = h, next_of(n) = h's former next (whose prev is now n); tail
\* becomes n exactly when h was the tail, head is unchanged, and no other
\* node's links or value change.
InsertAfterSplices ==
    (op.name = "insert_after" /\ contains_key(pre.list, op.index)) =>
        LET h == op.index
            n == op.ret
            old == get(pre.list, h)
        IN /\ ~op.panicked
           /\ n \notin Live(pre.list)
           /\ get(list, n) = LinkedListItem(n, op.value, old.next_index, h)
           /\ get(list, h) = [old EXCEPT !.next_index = n]
           /\ next_of(list, h).index = n
           /\ prev_of(list, n).index = h
           /\ next_of(list, n) = (IF old.next_index = None THEN NoItem
                                  ELSE [get(pre.list, old.next_index) EXCEPT !.prev_index = n])
           /\ (list.tail = n) <=> (pre.list.tail = h)
           /\ pre.list.tail # h => list.tail = pre.list.tail
           /\ list.head = pre.list.head
           /\ \A k \in Live(pre.list) \ {h, old.next_index} : SameNode(pre.list, list, k)
           /\ Live(list) = Live(pre.list) \cup {n}
           /\ LET i == CHOOSE i \in 1..len(pre.list) : Forward(pre.list)[i] = h
              IN Forward(list) = SubSeq(Forward(pre.list), 1, i) \o <<n>>
                                   \o SubSeq(Forward(pre.list), i + 1, len(pre.list))

\* a, b, c then insert_after(a, v): the new node sits between a and b
InsertedAfterHeadOfThree ==
    /\ op.name = "insert_after"
    /\ len(pre.list) = 3
    /\ op.index = pre.list.head
    /\ Forward(list)[2] = op.ret
    /\ Forward(list)[3] = Forward(pre.list)[2]

\* C13: insert_before(h, v) on a live h returns a new key n with prev_of(h) = n,
\* next_of(n) = h, prev_of(n) = h's former prev (whose next is now n); head
\* becomes n exactly when h was the head, tail is unchanged, and no other
\* node's links or value change.
InsertBeforeSplices ==
    (op.name = "insert_before" /\ contains_key(pre.list, op.index)) =>
        LET h == op.index
            n == op.ret
            old == get(pre.list, h)
        IN /\ ~op.panicked
           /\ n \notin Live(pre.list)
           /\ get(list, n) = LinkedListItem(n, op.value, h, old.prev_index)
           /\ get(list, h) = [old EXCEPT !.prev_index = n]
           /\ prev_of(list, h).index = n
           /\ next_of(list, n).index = h
           /\ prev_of(list, n) = (IF old.prev_index = None THEN NoItem
                                  ELSE [get(pre.list, old.prev_index) EXCEPT !.next_index = n])
           /\ (list.head = n) <=> (pre.list.head = h)
           /\ pre.list.head # h => list.head = pre.list.head
           /\ list.tail = pre.list.tail
           /\ \A k \in Live(pre.list) \ {h, old.prev_index} : SameNode(pre.list, list, k)
           /\ Live(list) = Live(pre.list) \cup {n}
           /\ LET i == CHOOSE i \in 1..len(pre.list) : Forward(pre.list)[i] = h
              IN Forward(list) = SubSeq(Forward(pre.list), 1, i - 1) \o <<n>>
                                   \o SubSeq(Forward(pre.list), i, len(pre.list))

\* a node inserted before the tail of a list of three
InsertedBeforeTailOfThree ==
    /\ op.name = "insert_before"
    /\ len(pre.list) = 3
    /\ op.index = pre.list.tail
    /\ Forward(list)[3] = op.ret
    /\ list.tail = pre.list.tail

\* C14: insert_after / insert_before with a key that is not live panic, never
\* return normally, allocate no node and leave head, tail, len() and all links
\* as they were.
StaleAnchorPanics ==
    (op.name \in {"insert_after", "insert_before"} /\ ~contains_key(pre.list, op.index)) =>
        /\ op.panicked
        /\ op.ret = None
        /\ op.rets = <<>>
        /\ list = pre.list
        /\ issued = pre.issued

\* insert_after anchored at a removed key of a list that still has nodes
InsertAfterRemovedAnchor ==
    /\ op.name = "insert_after"
    /\ op.index \in pre.freed
    /\ len(pre.list) > 0
    /\ op.panicked


\* the keys of l from k on, following next_index (k included)
FromKey(l, k) == cursor_next(l, k)

\* the part of the forward sequence of l strictly before k
BeforeKey(l, k) ==
    LET f == Forward(l)
        i == CHOOSE i \in 1..Len(f) : f[i] = k
    IN SubSeq(f, 1, i - 1)

\* C15: split_off(h) on a live h takes h and every node after it out of the
\* list and returns them, values in their original order, as a new list; the
\* original keeps exactly the nodes before h.
SplitOffMovesSuffix ==
    (op.name = "split_off" /\ contains_key(pre.list, op.index)) =>
        /\ ValuesAt(op.out, Forward(op.out)) =
              ValuesAt(pre.list, FromKey(pre.list, op.index))
        /\ Forward(list) = BeforeKey(pre.list, op.index)
        /\ op.index = pre.list.head => (len(list) = 0 /\ len(op.out) = len(pre.list))

\* what split_off does on a live h: the walker is stepped against the new
\* list, so the one node h is moved and every other node stays.
SplitOffMovesOneNode ==
    (op.name = "split_off" /\ contains_key(pre.list, op.index)) =>
        /\ ValuesAt(op.out, Forward(op.out)) = <<get(pre.list, op.index).value>>
        /\ Forward(list) = Without(Forward(pre.list), op.index)

\* split_off at the head of a list of three nodes
SplitOffAtHeadOfThree ==
    /\ op.name = "split_off"
    /\ op.index = pre.list.head
    /\ len(pre.list) = 3

\* C16: after split_off(h) on a live h, get on h and on every key that was
\* after h returns None in the original list.
SplitOffKillsSuffixKeys ==
    (op.name = "split_off" /\ contains_key(pre.list, op.index)) =>
        \A k \in RangeOf(FromKey(pre.list, op.index)) : get(list, k) = NoItem


\* split_off at the second of three nodes, whose successor stays in the original
SplitOffAtMiddleOfThree ==
    /\ op.name = "split_off"
    /\ len(pre.list) = 3
    /\ op.index = Forward(pre.list)[2]
    /\ contains_key(list, Forward(pre.list)[3])

\* C17: split_off(h) with h the tail of a list of L >= 1 nodes leaves L - 1
\* nodes in the original and returns a list of exactly one node with the old
\* tail's value: pop_front on it gives that value and then None.
SplitOffAtTail ==
    (op.name = "split_off" /\ len(pre.list) >= 1 /\ op.index = pre.list.tail) =>
        LET first == pop_front(op.out)
            second == pop_front(first.list)
        IN /\ len(list) = len(pre.list) - 1
           /\ Forward(list) = Without(Forward(pre.list), op.index)
           /\ len(op.out) = 1
           /\ first.val = get(pre.list, pre.list.tail).value
           /\ first.val \in Values
           /\ second.val = NoValue
           /\ ~first.panicked /\ ~second.panicked

\* split_off at the tail of a list of three nodes
SplitOffTailOfThree ==
    /\ op.name = "split_off"
    /\ len(pre.list) = 3
    /\ op.index = pre.list.tail
    /\ len(list) = 2

\* the list invariants of C1, C2 and C3 for a list l
EmptinessOf(l) ==
    /\ (len(l) = 0) <=> (l.head = None)
    /\ (l.head = None) <=> (l.tail = None)

LinksOf(l) ==
    \A h \in Live(l) :
        LET item == get(l, h) IN
        /\ item.next_index # None =>
              contains_key(l, item.next_index) /\ get(l, item.next_index).prev_index = h
        /\ item.prev_index # None =>
              contains_key(l, item.prev_index) /\ get(l, item.prev_index).next_index = h

ChainOf(l) ==
    len(l) > 0 =>
        /\ Len(Forward(l)) = len(l)
        /\ Forward(l)[len(l)] = l.tail
        /\ RangeOf(Forward(l)) = Live(l)
        /\ Len(Backward(l)) = len(l)
        /\ Backward(l)[len(l)] = l.head
        /\ RangeOf(Backward(l)) = Live(l)

WellFormed(l) == EmptinessOf(l) /\ LinksOf(l) /\ ChainOf(l)

\* C18: after split_off(h), h live or stale, the original and the returned
\* list both satisfy the list invariants, and their lengths add up to the
\* length of the original before the call.
SplitOffKeepsInvariants ==
    op.name = "split_off" =>
        /\ WellFormed(list)
        /\ WellFormed(op.out)
        /\ len(list) + len(op.out) = len(pre.list)

\* split_off at a node with neighbours on both sides
SplitOffBetweenNeighbours ==
    /\ op.name = "split_off"
    /\ contains_key(pre.list, op.index)
    /\ get(pre.list, op.index).prev_index # None
    /\ get(pre.list, op.index).next_index # None
    /\ len(op.out) = 1


\* C19: on a non-empty list, for 0 <= n < len(), nth(n) returns the key reached
\* by n next-steps from head, from whichever end it walks; nth(0) is head and
\* nth(len() - 1) is tail.
NthIsPosition ==
    (op.name = "nth" /\ op.value < len(pre.list)) =>
        /\ ~op.panicked
        /\ op.ret = Forward(pre.list)[op.value + 1]
        /\ op.value = 0 => op.ret = pre.list.head
        /\ op.value = len(pre.list) - 1 => op.ret = pre.list.tail
        /\ list = pre.list

\* nth(2) on a list of four nodes, found by one step back from the tail
NthFromTheBack ==
    /\ op.name = "nth"
    /\ len(pre.list) = 4
    /\ op.value = 2
    /\ op.ret = Forward(pre.list)[3]
    /\ op.ret # pre.list.tail

\* C20: nth(n) returns None, without panicking and without arithmetic
\* underflow, for every n >= len(), nth(len()) and nth on an empty list
\* included.
NthPastEndIsNone ==
    (op.name = "nth" /\ op.value >= len(pre.list)) =>
        /\ op.ret = None
        /\ ~op.panicked

\* s back to front
Reverse(s) == [i \in 1..Len(s) |-> s[Len(s) + 1 - i]]

\* C21: after extend(vs) on an empty list, for every input vs of N >= 1 values
\* (0..N is one such input), iter() yields exactly the N values of vs in input
\* order, the same sequence as iter_next(head), and iter_prev(tail) yields
\* them in reverse order; neither panics.
ExtendThenIterate ==
    (op.name = "extend" /\ len(pre.list) = 0 /\ Len(op.values) >= 1) =>
        /\ ~iter(list).panicked
        /\ ValuesAt(list, iter(list).rets) = op.values
        /\ iter(list) = iter_next(list, list.head)
        /\ Len(iter(list).rets) = Len(op.values)
        /\ ~iter_prev(list, list.tail).panicked
        /\ ValuesAt(list, iter_prev(list, list.tail).rets) = Reverse(op.values)

\* extend with three values on a list that was emptied before, so that the
\* new nodes go into reused and fresh slots
ExtendedEmptiedList ==
    /\ op.name = "extend"
    /\ len(pre.list) = 0
    /\ pre.freed # {}
    /\ op.values = <<1, 2, 2>>
    /\ ValuesAt(list, iter(list).rets) = <<1, 2, 2>>

\* C22: extend(values) on any list leaves the existing nodes in place and
\* appends one node per value in input order; it returns the new keys in
\* insertion order, the i-th key resolving to the i-th value and the last key
\* being tail.
ExtendAppends ==
    op.name = "extend" =>
        /\ ~op.panicked
        /\ Len(op.rets) = Len(op.values)
        /\ Forward(list) = Forward(pre.list) \o op.rets
        /\ ValuesAt(list, Forward(list)) =
              ValuesAt(pre.list, Forward(pre.list)) \o op.values
        /\ \A i \in 1..Len(op.rets) : get(list, op.rets[i]).value = op.values[i]
        /\ op.values # <<>> => op.rets[Len(op.rets)] = list.tail
        /\ op.values = <<>> => list = pre.list

\* two values appended behind a node that sits next to a freed slot
ExtendedBehindOne ==
    /\ op.name = "extend"
    /\ len(pre.list) = 1
    /\ pre.freed # {}
    /\ op.values = <<2, 1>>
    /\ len(list) = 3

\* C23: retain_mut(p) calls p once on every node that was live at the start,
\* in head-to-tail order; afterwards the list holds exactly the nodes whose
\* value p accepted, in their original order, under their original keys with
\* their values, and the keys of the other nodes no longer resolve.
RetainMutFilters ==
    op.name = "retain_mut" =>
        LET Kept(k) == op.f[get(pre.list, k).value]
            Accepted(v) == op.f[v]
        IN /\ ~op.panicked
           /\ op.rets = Forward(pre.list)
           /\ Forward(list) = SelectSeq(Forward(pre.list), Kept)
           /\ ValuesAt(list, Forward(list)) =
                 SelectSeq(ValuesAt(pre.list, Forward(pre.list)), Accepted)
           /\ \A k \in Live(pre.list) :
                 IF Kept(k)
                 THEN contains_key(list, k) /\ get(list, k).value = get(pre.list, k).value
                 ELSE ~contains_key(list, k)
           /\ Live(list) \subseteq Live(pre.list)

\* the middle one of three nodes rejected, its neighbours kept
RetainMutDropsMiddle ==
    /\ op.name = "retain_mut"
    /\ ValuesAt(pre.list, Forward(pre.list)) = <<1, 2, 1>>
    /\ op.f[1] /\ ~op.f[2]
    /\ ValuesAt(list, Forward(list)) = <<1, 1>>

\* C24: retain(p) returns a list with exactly the nodes of the original whose
\* value p accepts, in original order and under the keys they have in the
\* original, and leaves the original (head, tail, arena: len, links, values)
\* as it was.
RetainLeavesOriginal ==
    op.name = "retain" =>
        LET Kept(k) == op.f[get(pre.list, k).value]
            Accepted(v) == op.f[v]
        IN /\ ~op.panicked
           /\ list = pre.list
           /\ Forward(op.out) = SelectSeq(Forward(pre.list), Kept)
           /\ ValuesAt(op.out, Forward(op.out)) =
                 SelectSeq(ValuesAt(pre.list, Forward(pre.list)), Accepted)
           /\ len(op.out) = Len(Forward(op.out))
           /\ \A k \in Live(op.out) :
                 /\ contains_key(pre.list, k)
                 /\ get(op.out, k).value = get(pre.list, k).value

\* a copy that keeps the first and the last of three nodes
RetainDropsMiddle ==
    /\ op.name = "retain"
    /\ ValuesAt(pre.list, Forward(pre.list)) = <<2, 1, 2>>
    /\ op.f[2] /\ ~op.f[1]
    /\ len(list) = 3
    /\ ValuesAt(op.out, Forward(op.out)) = <<2, 2>>
    /\ Forward(op.out) = <<pre.list.head, pre.list.tail>>

\* C29: next_of_mut(h) resolves to the node next_of(h) resolves to (None when
\* h is the tail or does not resolve), and prev_of_mut(h) to the node
\* prev_of(h) resolves to.
MutLookupsAgree ==
    /\ op.name = "next_of_mut" => op.item = next_of(pre.list, op.index)
    /\ op.name = "prev_of_mut" => op.item = prev_of(pre.list, op.index)

\* C30: cursor_next, cursor_prev, iter_next and iter_prev started at a key that
\* does not resolve yield nothing (no key, no item) and do not panic.
StaleStartYieldsNothing ==
    (/\ op.name \in {"cursor_next", "cursor_prev", "iter_next", "iter_prev"}
     /\ ~contains_key(pre.list, op.index)) =>
        /\ op.rets = <<>>
        /\ ~op.panicked

\* C25: a walker made at a live key s and stepped against a list whose
\* structure has not changed since (values may have) returns, call by call, the
\* keys strictly after s in its direction, in order and never s, and None on
\* every call after that; a reverse walker made at the tail of a list of
\* length L returns L - 1 keys, the last of them head.
WalkerReturnsRest ==
    (walked.steady /\ contains_key(list, walked.start)) =>
        LET cursor == IF walker.reverse THEN cursor_prev(list, walked.start)
                      ELSE cursor_next(list, walked.start)
            rest == Tail(cursor)
            L == len(list)
        IN /\ \A i \in 1..Len(walked.rets) :
                 walked.rets[i] = IF i <= Len(rest) THEN rest[i] ELSE None
           /\ walked.start \notin RangeOf(walked.rets)
           /\ (walker.reverse /\ walked.start = list.tail /\ Len(walked.rets) >= L) =>
                 /\ \A i \in 1..(L - 1) : walked.rets[i] # None
                 /\ L > 1 => walked.rets[L - 1] = list.head
                 /\ \A i \in L..Len(walked.rets) : walked.rets[i] = None

\* a reverse walker from the tail of four nodes, stepped to the head and twice
\* more, with a value written on the way
ReverseWalkToHead ==
    /\ walker.reverse
    /\ walked.start = list.tail
    /\ walked.steady
    /\ walked.written
    /\ len(list) = 4
    /\ Len(walked.rets) = 5
    /\ walked.rets[3] = list.head
    /\ walked.rets[5] = None

\* on a list no call is in the middle of, the two-statement forms of the calls
\* agree with the calls
SplitCallsAgree ==
    /\ \A v \in Values :
          /\ push_back(list, v).list =
                push_back_link(push_back_insert(list, v).list, push_back_insert(list, v).ret)
          /\ push_front(list, v).list =
                push_front_link(push_front_insert(list, v).list, push_front_insert(list, v).ret)
    /\ list.tail # None =>
          pop_back(list).list =
             pop_back_relink(remove_take(list, list.tail), get(list, list.tail)).list
    /\ list.head # None =>
          pop_front(list).list =
             pop_front_relink(remove_take(list, list.head), get(list, list.head)).list

\* C28: with every push_back, push_front, pop_back, pop_front and remove made
\* under one whole-list lock, in any interleaving of the threads, the list
\* satisfies emptiness equivalence, mutual link consistency and the chain
\* condition in every state in which the lock is free.
LockedListWellFormed ==
    mutex = 0 => WellFormed(list)

\* the lock is free after both threads have made calls that left two nodes,
\* one of them in a slot freed before
WorkersPushedAndPopped ==
    /\ mutex = 0
    /\ \A t \in Threads : worker[t].done /\ worker[t].pc = "idle"
    /\ len(list) = 2
    /\ \E k \in Live(list) : k[2] > 1

\* under the lock, between the two statements of a call, the invariants are
\* broken: the lock is what keeps other threads from seeing that
BrokenUnderTheLock ==
    /\ mutex # 0
    /\ ~WellFormed(list)

\* C26: in no interleaving of threads calling get_mut on the cell are two
\* callbacks on the same key in progress at the same time, the interleavings
\* in which two threads create the key's lock entry included.
CallbacksExclusive ==
    \A t, u \in Threads :
        (t # u /\ cell[t].pc = "cb" /\ cell[u].pc = "cb") =>
            cell[t].index # cell[u].index

\* C27: of the remove, pop_back and pop_front calls threads make on the cell
\* without any other lock, at most one returns a given node; every other call
\* that returns does so with None or with another node.
OneTakerPerNode ==
    \A t, u \in Threads : t # u => cell[t].got \cap cell[u].got = {}

\* C31: iter() on an empty list yields nothing and does not panic.
IterOnEmptyIsEmpty ==
    (op.name = "iter" /\ len(pre.list) = 0) =>
        /\ ~op.panicked
        /\ op.rets = <<>>

\* C32: pop_back repeated on a list of length L returns Some exactly L times,
\* the values from the last node to the first; after the k-th pop (k < L) tail
\* is the node that was k places before the last; then pop_back returns None
\* and the list is empty.  pop_front repeated returns the values from the
\* first node to the last, head moving one place on with each pop.
RepeatedPopsDrain ==
    op.name \in {"pop_back_loop", "pop_front_loop"} =>
        LET s == Forward(pre.list)
            L == len(pre.list)
            At(k) == IF op.name = "pop_back_loop" THEN L + 1 - k ELSE k
            Then(k) == IF op.name = "pop_back_loop" THEN L - k ELSE k + 1
        IN /\ ~op.panicked
           /\ Len(op.rets) = L
           /\ \A k \in 1..L :
                 /\ op.rets[k].key = s[At(k)]
                 /\ op.rets[k].value = get(pre.list, s[At(k)]).value
                 /\ k < L => op.rets[k].end = s[Then(k)]
           /\ pop_back(list).item = NoItem /\ pop_back(list).val = NoValue
           /\ pop_front(list).item = NoItem /\ pop_front(list).val = NoValue
           /\ len(list) = 0
           /\ list.head = None /\ list.tail = None

\* three nodes popped from the back, next to a slot freed earlier
PoppedThreeFromBack ==
    /\ op.name = "pop_back_loop"
    /\ pre.freed # {}
    /\ ValuesAt(pre.list, Forward(pre.list)) = <<1, 2, 2>>
    /\ [k \in 1..Len(op.rets) |-> op.rets[k].value] = <<2, 2, 1>>
    /\ op.rets[1].end = Forward(pre.list)[2]
    /\ len(list) = 0

\* C33: for a live key s, cursor_next(s) is finite, begins with s and goes on
\* key by key along next_index up to and including tail (distance to tail + 1
\* keys, none twice); cursor_prev(s) begins with s and ends at head in the same
\* way; consuming either leaves the list as it was.
CursorsRunToTheEnd ==
    (op.name \in {"cursor_next", "cursor_prev"} /\ contains_key(pre.list, op.index)) =>
        LET F == Forward(pre.list)
            pos == CHOOSE i \in 1..Len(F) : F[i] = op.index
            c == op.rets
        IN /\ ~op.panicked
           /\ Len(c) >= 1 /\ c[1] = op.index
           /\ Len(c) <= len(pre.list)
           /\ NoDuplicates(c)
           /\ list = pre.list
           /\ \E i \in 1..Len(F) : F[i] = op.index
           /\ IF op.name = "cursor_next"
              THEN /\ c = SubSeq(F, pos, Len(F))
                   /\ c[Len(c)] = pre.list.tail
                   /\ \A i \in 1..(Len(c) - 1) : c[i + 1] = get(pre.list, c[i]).next_index
              ELSE /\ c = Reverse(SubSeq(F, 1, pos))
                   /\ c[Len(c)] = pre.list.head
                   /\ \A i \in 1..(Len(c) - 1) : c[i + 1] = get(pre.list, c[i]).prev_index

\* a cursor from the second of three nodes, next to a slot freed earlier
CursorFromSecondOfThree ==
    /\ op.name = "cursor_next"
    /\ len(pre.list) = 3
    /\ pre.freed # {}
    /\ op.index = Forward(pre.list)[2]
    /\ Len(op.rets) = 2
    /\ op.rets[2] = pre.list.tail

\* C34: a walk_next call of a forward walker whose current node c is live
\* returns the key c's next_index holds in the list as it is at that call, and
\* moves the walker there: a node inserted directly after c since the last
\* step is what the step returns, and a key returned is live at the call, never
\* one removed before it.
WalkFollowsLiveLinks ==
    [][(/\ walked'.rets # walked.rets
        /\ ~walker.reverse
        /\ walker.current # None
        /\ contains_key(list, walker.current)) =>
           LET ret == walked'.rets[Len(walked'.rets)] IN
           /\ Len(walked'.rets) = Len(walked.rets) + 1
           /\ ret = get(list, walker.current).next_index
           /\ walker'.current = ret
           /\ ret # None => (contains_key(list, ret) /\ ret \notin freed)
           /\ \A v \in Values :
                 LET ins == insert_after(list, walker.current, v)
                 IN walk_next(walker, ins.list).ret = ins.ret]_vars

\* a forward walker that was handed, at its second step or later, a node
\* inserted into the slot of a node removed ahead of it, and never a removed one
WalkedOntoInsertedNode ==
    /\ ~walker.reverse
    /\ ~walked.steady
    /\ \E i \in 2..Len(walked.rets) :
          /\ walked.rets[i] # None
          /\ walked.rets[i][2] > 1
          /\ walked.rets[i - 1] # None
          /\ contains_key(list, walked.rets[i - 1])
          /\ get(list, walked.rets[i - 1]).next_index = walked.rets[i]
    /\ freed # {}
    /\ freed \cap RangeOf(walked.rets) = {}

\* the key a walk stands on: the one walk_next returned last, or the start
RECURSIVE StandsOn(_)
StandsOn(w) ==
    IF w.rets = <<>> THEN w.start
    ELSE IF w.rets[Len(w.rets)] # None THEN w.rets[Len(w.rets)]
    ELSE StandsOn([w EXCEPT !.rets = SubSeq(w.rets, 1, Len(w.rets) - 1)])

\* C35: a walk_next call made when the node the walker stands on has been
\* removed returns None and leaves the walker where it is, so that every later
\* call returns None as well, whatever nodes are live further along.
WalkerStuckOnRemovedNode ==
    [][(/\ walked'.rets # walked.rets
        /\ ~contains_key(list, StandsOn(walked))) =>
           /\ walked'.rets = Append(walked.rets, None)
           /\ walker' = walker
           /\ walk_next(walker', list').ret = None
           /\ StandsOn(walked') = StandsOn(walked)]_vars

\* a forward walker whose node was removed after its first step: two calls
\* returned None since, with the original tail still live ahead of it
WalkStoppedBeforeTail ==
    /\ ~walker.reverse
    /\ Len(walked.rets) = 3
    /\ walked.rets[1] # None
    /\ walked.rets[2] = None /\ walked.rets[3] = None
    /\ walked.rets[1] \in freed
    /\ list.tail # None
    /\ list.tail[2] = 1
    /\ list.tail[1] > walked.rets[1][1]

\* C36: whenever no call into the cell is in progress, no live node has its
\* lock flag set: the locks get_mut, pop_back and pop_front took on nodes that
\* are still in the list have been released when the calls returned.
LocksReleasedAtRest ==
    (\A t \in Threads : cell[t].pc = "idle") =>
        \A k \in Live(list) : k \in DOMAIN item_locks => ~item_locks[k]

\* pop_back locked the tail it read and popped the node another thread pushed
\* behind it meanwhile: the node it locked is still in the list, locked
PoppedAnotherThreadsNode ==
    /\ \A t \in Threads : cell[t].pc = "idle"
    /\ len(orig) = 1
    /\ Forward(list) = <<orig.tail>>
    /\ orig.tail \in DOMAIN item_locks /\ item_locks[orig.tail]
    /\ \E t \in Threads : cell[t].got = {<<2, 1>>}

\* C37: under fair scheduling every call a thread makes into the cell comes to
\* its end (it returns, or panics), two pop_back calls on the same tail
\* included.
CellCallsReturn ==
    \A t \in Threads :
        (cell[t].pc # "idle") ~> (cell[t].pc \in {"idle", "panicked"})

\* every key that resolves in l resolves to a node whose index field is the key
IndexIsKey(l) == \A h \in Live(l) : get(l, h).index = h

\* C38: in every state reached by public operations each live node's index
\* field equals the key it is stored under, in the list itself and in the
\* lists retain and split_off return.
IndexFieldIsKey ==
    /\ IndexIsKey(list)
    /\ op.name \in {"retain", "split_off"} => IndexIsKey(op.out)

\* split_off returned a list with a node while the list keeps a node that sits
\* in a reused slot
SplitOffBesideReusedSlot ==
    /\ op.name = "split_off"
    /\ len(op.out) = 1
    /\ get(op.out, op.out.head).index = op.out.head
    /\ \E h \in Live(list) : h[2] > 1 /\ get(list, h).index = h

\* C39: extend_front(values) pushes the values to the front one by one in
\* input order: the new nodes stand ahead of the existing ones in reverse input
\* order, the i-th key returned resolves to the i-th value and the last key
\* returned is head.
ExtendFrontPrepends ==
    op.name = "extend_front" =>
        /\ ~op.panicked
        /\ Len(op.rets) = Len(op.values)
        /\ Forward(list) = Reverse(op.rets) \o Forward(pre.list)
        /\ ValuesAt(list, Forward(list)) =
              Reverse(op.values) \o ValuesAt(pre.list, Forward(pre.list))
        /\ \A i \in 1..Len(op.rets) : get(list, op.rets[i]).value = op.values[i]
        /\ \A k \in Live(pre.list) : get(list, k).value = get(pre.list, k).value
        /\ op.values # <<>> => op.rets[Len(op.rets)] = list.head
        /\ op.values = <<>> => list = pre.list

\* two values put ahead of a node that sits next to a freed slot
ExtendedAheadOfOne ==
    /\ op.name = "extend_front"
    /\ len(pre.list) = 1
    /\ pre.freed # {}
    /\ op.values = <<1, 2>>
    /\ ValuesAt(list, Forward(list)) = <<2, 1, get(pre.list, pre.list.head).value>>
    /\ list.tail = pre.list.head

====
